---- MODULE Spec2Model ----
(***************************************************************************)
(* Model of the Godot session manager of src/python/godot_connection.py:   *)
(* the response framing of GodotConnection.receive_full_response, the      *)
(* command dispatch of GodotConnection.send_command and the acquire path   *)
(* get_godot_connection.                                                   *)
(*                                                                         *)
(* A byte is a string: an ASCII byte is the one-character string of that   *)
(* character, the two bytes of the UTF-8 encoding of U+00E9 are "xC3" and  *)
(* "xA9".  A byte string (Python bytes) and a text (Python str) are        *)
(* sequences of such strings.                                              *)
(***************************************************************************)
EXTENDS Integers, Sequences, FiniteSets, TLC

\* ------------------------------------------------------------------ bounds
\* Most chunks one peer reply is delivered in, in the session specification.
MaxChunks == 2
\* Most sockets the session specification opens in one behaviour.
MaxSockets == 3
\* The commands each of the concurrent callers sends.
MaxCommands == 2
\* The bytes of the receive buffer the stream specification keeps.
MaxBuffer == 4
\* The seconds up to which the stream specification counts the time waited.
MaxWaited == 900

\* The largest configured base timeout of the poll loops that is tried, beside
\* the default.
MaxTimeout == 40

\* --------------------------------------------------- program constants
\* config.connection_timeout, in seconds.
connection_timeout == 300
\* config.buffer_size: the most bytes one recv returns.
buffer_size == 1048576

\* ------------------------------------------------------------ the letters
QUOTE == "\""
W_status == <<"s", "t", "a", "t", "u", "s">>
W_success == <<"s", "u", "c", "c", "e", "s", "s">>
W_result == <<"r", "e", "s", "u", "l", "t">>
W_message == <<"m", "e", "s", "s", "a", "g", "e">>
W_pong == <<"p", "o", "n", "g">>
W_error == <<"e", "r", "r", "o", "r">>
W_null == <<"n", "u", "l", "l">>
W_true == <<"t", "r", "u", "e">>
W_false == <<"f", "a", "l", "s", "e">>
W_X == <<"X">>
W_Y == <<"Y">>

\* A JSON string literal of the text s (s holds no quote and no backslash).
Q(s) == <<QUOTE>> \o s \o <<QUOTE>>

\* ------------------------------------------------------------ UTF-8 decode
\* Lead bytes of a two-byte sequence, and continuation bytes.
Lead2 == {"xC3"}
Cont == {"xA9"}
\* The code point a two-byte sequence encodes.
CodePoint(lead, cont) == "U+00E9"

\* data.decode('utf-8') from byte i on, acc being the text decoded so far:
\* [ok |-> FALSE] stands for UnicodeDecodeError.
RECURSIVE DecodeFrom(_, _, _)
DecodeFrom(bs, i, acc) ==
    IF i > Len(bs) THEN [ok |-> TRUE, text |-> acc]
    ELSE IF bs[i] \in Lead2
         THEN IF i + 1 <= Len(bs) /\ bs[i + 1] \in Cont
              THEN DecodeFrom(bs, i + 2, Append(acc, CodePoint(bs[i], bs[i + 1])))
              ELSE [ok |-> FALSE, text |-> <<>>]
         ELSE IF bs[i] \in Cont
              THEN [ok |-> FALSE, text |-> <<>>]
              ELSE DecodeFrom(bs, i + 1, Append(acc, bs[i]))

decode(bs) == DecodeFrom(bs, 1, <<>>)

\* ------------------------------------------------------ str.strip, startswith
\* The characters of the model's alphabet that str.strip() removes.
StrWhitespace == {" ", "\n", "\t", "\r", "\f"}

RECURSIVE LStrip(_)
LStrip(s) == IF s # <<>> /\ Head(s) \in StrWhitespace THEN LStrip(Tail(s)) ELSE s

RECURSIVE RStrip(_)
RStrip(s) ==
    IF s # <<>> /\ s[Len(s)] \in StrWhitespace
    THEN RStrip(SubSeq(s, 1, Len(s) - 1))
    ELSE s

strip(s) == RStrip(LStrip(s))

startswith(s, prefix) ==
    Len(s) >= Len(prefix) /\ SubSeq(s, 1, Len(prefix)) = prefix

\* The literal of line 67: {"status":"success","result":{"message":"pong"
PongPrefix ==
    <<"{">> \o Q(W_status) \o <<":">> \o Q(W_success) \o <<",">> \o Q(W_result)
        \o <<":", "{">> \o Q(W_message) \o <<":">> \o Q(W_pong)

\* ----------------------------------------------------------- json.loads
\* A parsed JSON value is [t |-> its type, v |-> its content]: an object is a
\* function from keys (texts) to values, an array a sequence of values, a string
\* its text, a number its lexeme.
JNull == [t |-> "null", v |-> <<>>]
JTrue == [t |-> "true", v |-> <<>>]
JFalse == [t |-> "false", v |-> <<>>]
JString(s) == [t |-> "string", v |-> s]
JNumber(lexeme) == [t |-> "number", v |-> lexeme]
JObject(f) == [t |-> "object", v |-> f]
JArray(s) == [t |-> "array", v |-> s]

\* What a failed scan returns (JSONDecodeError).
ParseFail == [ok |-> FALSE, val |-> JNull, pos |-> 0]
ParseOk(val, pos) == [ok |-> TRUE, val |-> val, pos |-> pos]

\* json.decoder.WHITESPACE: [ \t\n\r]*
JsonWhitespace == {" ", "\t", "\n", "\r"}
Digits == {"0", "1", "2", "3", "4", "5", "6", "7", "8", "9"}
\* Characters a strict JSON string cannot hold unescaped.
ControlChars == {"\n", "\t", "\r", "\f"}

\* The index of the first character of s at or after i that is no JSON whitespace.
RECURSIVE SkipWs(_, _)
SkipWs(s, i) ==
    IF i <= Len(s) /\ s[i] \in JsonWhitespace THEN SkipWs(s, i + 1) ELSE i

\* The index after the last of the digits that start at i.
RECURSIVE SkipDigits(_, _)
SkipDigits(s, i) ==
    IF i <= Len(s) /\ s[i] \in Digits THEN SkipDigits(s, i + 1) ELSE i

\* The index of the quote closing the string whose first character is at i,
\* 0 when the string is unterminated or holds a control character or a backslash
\* escape (the model's alphabet holds no backslash).
RECURSIVE ScanString(_, _)
ScanString(s, i) ==
    IF i > Len(s) THEN 0
    ELSE IF s[i] = QUOTE THEN i
    ELSE IF s[i] \in ControlChars \/ s[i] = "\\" THEN 0
    ELSE ScanString(s, i + 1)

\* json.decoder.NUMBER_RE: (-?(?:0|[1-9][0-9]*))(\.[0-9]+)?([eE][-+]?[0-9]+)?
\* Each operator gives the index after the match so far, 0 when there is none.
\* The integer part at j0.
NumInt(s, j0) ==
    IF j0 > Len(s) \/ s[j0] \notin Digits THEN 0
    ELSE IF s[j0] = "0" THEN j0 + 1
    ELSE SkipDigits(s, j0)

\* The optional fraction at j1.
NumFrac(s, j1) ==
    IF j1 # 0 /\ j1 + 1 <= Len(s) /\ s[j1] = "." /\ s[j1 + 1] \in Digits
    THEN SkipDigits(s, j1 + 1)
    ELSE j1

\* The digits of an exponent at k1; without them the match ends at j2.
NumExpDigits(s, k1, j2) ==
    IF k1 <= Len(s) /\ s[k1] \in Digits THEN SkipDigits(s, k1) ELSE j2

\* The optional exponent at j2.
NumExp(s, j2) ==
    IF j2 # 0 /\ j2 <= Len(s) /\ s[j2] \in {"e", "E"}
    THEN NumExpDigits(s, IF j2 + 1 <= Len(s) /\ s[j2 + 1] \in {"-", "+"}
                         THEN j2 + 2 ELSE j2 + 1, j2)
    ELSE j2

MatchNumber(s, i) ==
    NumExp(s, NumFrac(s, NumInt(s, IF i <= Len(s) /\ s[i] = "-" THEN i + 1 ELSE i)))

IsWord(s, i, w) == i + Len(w) - 1 <= Len(s) /\ SubSeq(s, i, i + Len(w) - 1) = w

RECURSIVE ParseValue(_, _)
RECURSIVE ParseMembers(_, _, _)
RECURSIVE ParseElements(_, _, _)

\* JSONObject, after a pair: j is at the closing brace or at a comma, g holds
\* the pairs read so far.
MembersNext(s, g, j) ==
    IF j > Len(s) THEN ParseFail
    ELSE IF s[j] = "}" THEN ParseOk(JObject(g), j + 1)
    ELSE IF s[j] = "," THEN ParseMembers(s, SkipWs(s, j + 1), g)
    ELSE ParseFail

\* JSONObject, after the value r of key: a repeated key keeps its last value.
MembersValue(s, f, key, r) ==
    IF ~r.ok THEN ParseFail
    ELSE MembersNext(s, (key :> r.val) @@ f, SkipWs(s, r.pos))

\* JSONObject, after a key: colon is where the colon has to be.
MembersColon(s, f, key, colon) ==
    IF colon > Len(s) \/ s[colon] # ":" THEN ParseFail
    ELSE MembersValue(s, f, key, ParseValue(s, SkipWs(s, colon + 1)))

\* JSONObject, in a key that opens at i: close is its closing quote.
MembersKey(s, i, f, close) ==
    IF close = 0 THEN ParseFail
    ELSE MembersColon(s, f, SubSeq(s, i + 1, close - 1), SkipWs(s, close + 1))

\* JSONObject after the opening brace and whitespace: i is where the quote
\* opening a key has to be, f holds the pairs read so far.
ParseMembers(s, i, f) ==
    IF i > Len(s) \/ s[i] # QUOTE THEN ParseFail
    ELSE MembersKey(s, i, f, ScanString(s, i + 1))

\* JSONArray, after the element r: acc holds the elements before it.
ElementsNext(s, acc, r, j) ==
    IF ~r.ok \/ j > Len(s) THEN ParseFail
    ELSE IF s[j] = "]" THEN ParseOk(JArray(Append(acc, r.val)), j + 1)
    ELSE IF s[j] = "," THEN ParseElements(s, SkipWs(s, j + 1), Append(acc, r.val))
    ELSE ParseFail

ElementsValue(s, acc, r) ==
    ElementsNext(s, acc, r, IF r.ok THEN SkipWs(s, r.pos) ELSE 0)

\* JSONArray after the opening bracket and whitespace: i is at an element.
ParseElements(s, i, acc) == ElementsValue(s, acc, ParseValue(s, i))

\* A string that opens at i: close is its closing quote.
StringValue(s, i, close) ==
    IF close = 0 THEN ParseFail
    ELSE ParseOk(JString(SubSeq(s, i + 1, close - 1)), close + 1)

\* An object whose brace is at i: j is the first non-blank after it.
ObjectValue(s, j) ==
    IF j <= Len(s) /\ s[j] = "}" THEN ParseOk(JObject(<<>>), j + 1)
    ELSE ParseMembers(s, j, <<>>)

\* An array whose bracket is at i: j is the first non-blank after it.
ArrayValue(s, j) ==
    IF j <= Len(s) /\ s[j] = "]" THEN ParseOk(JArray(<<>>), j + 1)
    ELSE ParseElements(s, j, <<>>)

\* A number at i: e is the index after it, 0 when there is none.
NumberValue(s, i, e) ==
    IF e = 0 THEN ParseFail ELSE ParseOk(JNumber(SubSeq(s, i, e - 1)), e)

\* json.scanner.py_make_scanner._scan_once at i.
ParseValue(s, i) ==
    IF i > Len(s) THEN ParseFail
    ELSE IF s[i] = QUOTE THEN StringValue(s, i, ScanString(s, i + 1))
    ELSE IF s[i] = "{" THEN ObjectValue(s, SkipWs(s, i + 1))
    ELSE IF s[i] = "[" THEN ArrayValue(s, SkipWs(s, i + 1))
    ELSE IF IsWord(s, i, W_null) THEN ParseOk(JNull, i + 4)
    ELSE IF IsWord(s, i, W_true) THEN ParseOk(JTrue, i + 4)
    ELSE IF IsWord(s, i, W_false) THEN ParseOk(JFalse, i + 5)
    ELSE NumberValue(s, i, MatchNumber(s, i))

\* The value r scanned from text, when nothing but whitespace follows it
\* ("Extra data" otherwise).
LoadsEnd(text, r) ==
    IF r.ok /\ SkipWs(text, r.pos) = Len(text) + 1
    THEN [ok |-> TRUE, val |-> r.val]
    ELSE [ok |-> FALSE, val |-> JNull]

\* json.loads(text): one value between optional whitespace.  [ok |-> FALSE]
\* stands for JSONDecodeError.
json_loads(text) == LoadsEnd(text, ParseValue(text, SkipWs(text, 1)))

\* ------------------------------------------------------ the peer's replies
\* {"status":"success","result":{"message":"pong"}}
M_pong == PongPrefix \o <<"}", "}">>
\* {"status":"success"}
M_success == <<"{">> \o Q(W_status) \o <<":">> \o Q(W_success) \o <<"}">>
\* {"status":"success"} and a newline
M_successNl == M_success \o <<"\n">>
\* {"status":"success","result":{"message":"X"}}
M_resultX ==
    <<"{">> \o Q(W_status) \o <<":">> \o Q(W_success) \o <<",">> \o Q(W_result)
        \o <<":", "{">> \o Q(W_message) \o <<":">> \o Q(W_X) \o <<"}", "}">>
\* {"result":{"message":"\xc3\xa9"}}: a reply with a two-byte character in it
M_utf8 ==
    <<"{">> \o Q(W_result) \o <<":", "{">> \o Q(W_message) \o <<":">>
        \o Q(<<"xC3", "xA9">>) \o <<"}", "}">>
\* {"status":"error","error":"X"}
M_errorX ==
    <<"{">> \o Q(W_status) \o <<":">> \o Q(W_error) \o <<",">> \o Q(W_error)
        \o <<":">> \o Q(W_X) \o <<"}">>
\* {"status":"error","message":"Y"}
M_messageY ==
    <<"{">> \o Q(W_status) \o <<":">> \o Q(W_error) \o <<",">> \o Q(W_message)
        \o <<":">> \o Q(W_Y) \o <<"}">>
\* {"status":"error","error":"","message":"Y"}
M_emptyErrorY ==
    <<"{">> \o Q(W_status) \o <<":">> \o Q(W_error) \o <<",">> \o Q(W_error)
        \o <<":">> \o Q(<<>>) \o <<",">> \o Q(W_message) \o <<":">> \o Q(W_Y) \o <<"}">>
\* {"status":"error","error":"X","message":"Y"}
M_errorXY ==
    <<"{">> \o Q(W_status) \o <<":">> \o Q(W_error) \o <<",">> \o Q(W_error)
        \o <<":">> \o Q(W_X) \o <<",">> \o Q(W_message) \o <<":">> \o Q(W_Y) \o <<"}">>
\* {"status":"error"}
M_errorBare == <<"{">> \o Q(W_status) \o <<":">> \o Q(W_error) \o <<"}">>
\* 12
M_number == <<"1", "2">>
\* {}
M_emptyObject == <<"{", "}">>
\* [1]
M_array == <<"[", "1", "]">>
\* A blank and the pong reply
M_blankPong == <<" ">> \o M_pong
\* pong: bytes that are no JSON document
M_garbage == W_pong

\* The replies the peer sends that are complete JSON documents, and all it sends.
CompleteMessages ==
    { M_pong, M_blankPong, M_success, M_successNl, M_resultX, M_utf8, M_errorX, M_messageY,
      M_emptyErrorY, M_errorXY, M_errorBare, M_number, M_emptyObject, M_array }
Messages == CompleteMessages \cup { M_garbage }

\* null, 0, [], false and "": documents whose value Python takes for false
M_null == W_null
M_zero == <<"0">>
M_emptyArray == <<"[", "]">>
M_false == W_false
M_emptyString == Q(<<>>)
\* {"status":"pong"}: a status that is neither "success" nor "error"
M_statusPong == <<"{">> \o Q(W_status) \o <<":">> \o Q(W_pong) \o <<"}">>
\* {"result":null}
M_resultNull == <<"{">> \o Q(W_result) \o <<":">> \o W_null \o <<"}">>

\* The replies of a peer that answers every request with one JSON document.
ReplyDocuments ==
    CompleteMessages
      \cup { M_null, M_zero, M_emptyArray, M_false, M_emptyString, M_statusPong, M_resultNull }

\* ------------------------------------------------- receive_full_response
\* What sock.recv returns: bytes (none of them when the peer closed the
\* stream), or the socket.timeout it raises.
RecvBytes(chunk) == [t |-> "bytes", v |-> chunk]
RecvTimedOut == [t |-> "timeout", v |-> <<>>]

\* A Python value the call returns: None, or bytes.
NoneVal == [t |-> "None", v |-> <<>>]
Bytes(d) == [t |-> "bytes", v |-> d]

\* The state of one call: st is "reading" while the loop runs, "returned" or
\* "raised" after it; data is b''.join(chunks) (every chunk appended is
\* non-empty, so chunks is empty exactly when data is); ret is the value
\* returned, path the return statement taken, err the exception raised.
RxState(st, data, ret, path, err) ==
    [st |-> st, data |-> data, ret |-> ret, path |-> path, err |-> err]
RxStart == RxState("reading", <<>>, NoneVal, "none", "none")

\* The check with the full parse tried before the pong prefix.
Completion_ParseFirst(decoded_data) ==
    IF json_loads(decoded_data).ok THEN "parsed"
    ELSE IF startswith(strip(decoded_data), PongPrefix) THEN "fast"
    ELSE "incomplete"

\* The check of lines 65-79 on the decoded buffer: "fast" for the return of
\* line 69, "parsed" for the return of line 76, "incomplete" for the continue.
Completion(decoded_data) ==
    IF startswith(strip(decoded_data), PongPrefix) THEN "fast"
    ELSE IF json_loads(decoded_data).ok THEN "parsed"
    ELSE "incomplete"

\* Lines 65-79 on the buffer joined, d being its decoding.
RecvChecked(joined, c) ==
    IF c = "incomplete"
    THEN RxState("reading", joined, NoneVal, "none", "none")
    ELSE RxState("returned", joined, Bytes(joined), c, "none")

\* Line 62 on the buffer joined: the decoding is outside the inner try, so a
\* UnicodeDecodeError leaves through the handler of lines 87-89, which re-raises.
RecvDecoded(joined, d) ==
    IF ~d.ok
    THEN RxState("raised", joined, NoneVal, "none", "UnicodeDecodeError")
    ELSE RecvChecked(joined, Completion(d.text))

\* The loop without the test of line 55: a close ends the loop whatever was read.
RecvStep_NoPrematureCheck(data, r) ==
    IF r.t = "timeout"
    THEN RxState("raised", data, NoneVal, "none", "Timeout receiving Godot response")
    ELSE IF r.v = <<>>
    THEN RxState("returned", data, NoneVal, "closed", "none")
    ELSE RecvDecoded(data \o r.v, decode(data \o r.v))

\* One iteration of the loop of lines 52-83 with its handlers of lines 84-89:
\* r is what sock.recv gave.
RecvStep(data, r) ==
    IF r.t = "timeout"
    THEN RxState("raised", data, NoneVal, "none", "Timeout receiving Godot response")
    ELSE IF r.v = <<>>
    THEN IF data = <<>>
         THEN RxState("raised", data, NoneVal, "none",
                      "Connection closed before receiving data")
         ELSE RxState("returned", data, NoneVal, "closed", "none")
    ELSE RecvDecoded(data \o r.v, decode(data \o r.v))

\* The whole call on the recv results evs (the last of them a close or a
\* timeout, so that the loop ends), from the i-th on: the final state and how
\* many recv calls were made.
RECURSIVE ReceiveLoop(_, _, _)
LoopNext(s, evs, i) ==
    IF s.st = "reading" THEN ReceiveLoop(s.data, evs, i + 1)
    ELSE [rx |-> s, reads |-> i]

ReceiveLoop(data, evs, i) == LoopNext(RecvStep(data, evs[i]), evs, i)

receive_full_response(evs) == ReceiveLoop(<<>>, evs, 1)

\* What the caller of receive_full_response sees of a finished call.
RxResult(s) == [st |-> s.st, ret |-> s.ret, err |-> s.err]
NoReply == [st |-> "none", ret |-> NoneVal, err |-> "none"]

\* The ways the call can end while the peer delivers the rest of m (the bytes
\* after the first pos of them, data being what was read so far) in at most n
\* chunks of any sizes and then closes the stream or falls silent.
RECURSIVE ReceiveOutcomes(_, _, _, _)
AfterChunk(m, k, s, n) ==
    IF s.st = "reading" THEN ReceiveOutcomes(m, k, s.data, n) ELSE {RxResult(s)}

ReceiveOutcomes(m, pos, data, n) ==
    {RxResult(RecvStep(data, RecvBytes(<<>>))), RxResult(RecvStep(data, RecvTimedOut))}
      \cup IF n = 0 THEN {}
           ELSE UNION { AfterChunk(m, k, RecvStep(data, RecvBytes(SubSeq(m, pos + 1, k))), n - 1) :
                          k \in (pos + 1)..Len(m) }

\* Every way a call of receive_full_response can end in the session model.
RxOutcomes == UNION { ReceiveOutcomes(m, 0, <<>>, MaxChunks) : m \in Messages }

\* ------------------------------------------------------- Python values
\* None as a socket handle or a connection reference.
None == 0
\* Python's None as a value: json.loads gives it for null.
PyNone == JNull
\* {"message": "pong"} and {}
Pong == JObject(W_message :> JString(W_pong))
EmptyDict == JObject(<<>>)

\* A number lexeme that denotes zero.
IsZeroNumber(lexeme) ==
    \A i \in 1..Len(lexeme) :
        lexeme[i] \in (Digits \ {"0"}) => \E j \in 1..(i - 1) : lexeme[j] \in {"e", "E"}

\* The test of line 136 as "response is None".
Falsy_OnlyNone(val) == val.t = "null"

\* not value
Falsy(val) ==
    \/ val.t \in {"null", "false"}
    \/ val.t \in {"string", "array", "object"} /\ DOMAIN val.v = {}
    \/ val.t = "number" /\ IsZeroNumber(val.v)

\* not response_data, for the bytes or None that receive_full_response returns
NoBytes(ret) == ret.t = "None" \/ ret.v = <<>>

\* dict.get(key, default)
Get(val, key, default) == IF key \in DOMAIN val.v THEN val.v[key] ELSE default

\* str(e) of Exception(value): a string is its own text; of the other values
\* only None's text is kept exact, the rest is one opaque word.
PyStr(val) ==
    IF val.t = "string" THEN val.v
    ELSE IF val.t = "null" THEN <<"None">>
    ELSE <<"<repr>">>

\* json.loads(response_data.decode('utf-8')): err names the exception raised.
LoadsParsed(r) ==
    [ok |-> r.ok, val |-> r.val, err |-> IF r.ok THEN "none" ELSE "JSONDecodeError"]

LoadsDecoded(d) ==
    IF ~d.ok THEN [ok |-> FALSE, val |-> JNull, err |-> "UnicodeDecodeError"]
    ELSE LoadsParsed(json_loads(d.text))

loads_bytes(data) == LoadsDecoded(decode(data))

\* What the peer's part in a receive comes to: how the call ends and, when it
\* returns bytes, what they load to.
NotLoaded == [ok |-> FALSE, val |-> JNull, err |-> "none"]
Exchange(r) ==
    [reply |-> r,
     loaded |-> IF r.st = "returned" /\ r.ret.t = "bytes" /\ r.ret.v # <<>>
                THEN loads_bytes(r.ret.v) ELSE NotLoaded]
NoExchange == [reply |-> NoReply, loaded |-> NotLoaded]
Exchanges == { Exchange(r) : r \in RxOutcomes }

\* An exception: its class and its message, a text (a fixed part of a message
\* is one element of the text).
Exc(type, msg) == [type |-> type, msg |-> msg]
NoExc == Exc("none", <<>>)

\* ----------------------------------------------------- GodotConnection
\* The network's part in one call of send_command: whether a connect succeeds
\* and the socket it gives, whether sendall succeeds, how the receive ends; and
\* with the bytes received, what json.loads(response_data.decode('utf-8')) of
\* lines 110 and 134 makes of them.
IO(connect_ok, fresh, send_ok, x) ==
    [connect_ok |-> connect_ok, fresh |-> fresh, send_ok |-> send_ok,
     reply |-> x.reply, loaded |-> x.loaded]

\* connect without the test of lines 25-26: it opens a socket whatever the
\* handle.
connect_AlwaysOpens(self_sock, io) ==
    IF io.connect_ok THEN [ok |-> TRUE, sock |-> io.fresh, opened |-> TRUE]
    ELSE [ok |-> FALSE, sock |-> None, opened |-> FALSE]

\* connect: [ok |-> its result, sock |-> self.sock after it, opened |-> whether
\* it opened a socket].
connect(self_sock, io) ==
    IF self_sock # None THEN [ok |-> TRUE, sock |-> self_sock, opened |-> FALSE]
    ELSE IF io.connect_ok THEN [ok |-> TRUE, sock |-> io.fresh, opened |-> TRUE]
    ELSE [ok |-> FALSE, sock |-> None, opened |-> FALSE]

\* disconnect without the finally of lines 44-45: a close that raises leaves
\* the handle.
disconnect_NoFinally(self_sock, close_ok) ==
    [sock |-> IF close_ok THEN None ELSE self_sock,
     closed |-> IF self_sock # None /\ close_ok THEN self_sock ELSE None]

\* disconnect: self.sock after it and, when a socket was present and its close
\* did not raise, the socket closed.
disconnect(self_sock, close_ok) ==
    [sock |-> None, closed |-> IF self_sock # None /\ close_ok THEN self_sock ELSE None]

\* How a call of send_command ends: self.sock after it, the exception raised
\* (NoExc when it returns) and the value returned; and of what it did, whether
\* it opened a socket, the socket the command was sent on, how the receive ended.
CallResult(sock, exc, ret, c, reply) ==
    [sock |-> sock, raised |-> exc.type # "none", exc |-> exc, ret |-> ret,
     opened |-> c.opened, sent_on |-> c.sock, reply |-> reply]

\* Lines 118-121: the ping's handler.
PingError(c, cause, reply) ==
    CallResult(None, Exc("ConnectionError", <<"Connection verification failed: ">> \o cause),
               PyNone, c, reply)

\* Line 112 with the status test loosened to "not an error".
PingRejects_NotError(response) ==
    Falsy(response) \/ Get(response, W_status, PyNone) = JString(W_error)

\* Line 112: not response or response.get("status") != "success"
PingRejects(response) ==
    Falsy(response) \/ Get(response, W_status, PyNone) # JString(W_success)

\* Lines 110-117 with line 117 returning the peer's result payload.
PingResponse_ReturnsResult(c, reply, loaded) ==
    IF ~loaded.ok THEN PingError(c, <<loaded.err>>, reply)
    ELSE IF ~Falsy(loaded.val) /\ loaded.val.t # "object"
         THEN PingError(c, <<"AttributeError">>, reply)
    ELSE IF PingRejects(loaded.val)
         THEN PingError(c, <<"Connection verification failed">>, reply)
    ELSE CallResult(c.sock, NoExc, Get(loaded.val, W_result, PyNone), c, reply)

\* Lines 110-117 on the loaded response.
PingResponse(c, reply, loaded) ==
    IF ~loaded.ok THEN PingError(c, <<loaded.err>>, reply)
    ELSE IF ~Falsy(loaded.val) /\ loaded.val.t # "object"
         THEN PingError(c, <<"AttributeError">>, reply)
    ELSE IF PingRejects(loaded.val)
         THEN PingError(c, <<"Connection verification failed">>, reply)
    ELSE CallResult(c.sock, NoExc, Pong, c, reply)

\* Lines 98-121: the ping on the connected socket c.sock.
Ping(c, io) ==
    IF ~io.send_ok THEN PingError(c, <<"socket error">>, NoReply)
    ELSE IF io.reply.st = "raised" THEN PingError(c, <<io.reply.err>>, io.reply)
    ELSE IF NoBytes(io.reply.ret) THEN PingError(c, <<"Empty ping response">>, io.reply)
    ELSE PingResponse(c, io.reply, io.loaded)

\* The handler without line 153: the handle stays.
GenericError_KeepsSock(c, cause, reply) ==
    CallResult(c.sock, Exc("Exception", <<"Failed to communicate with Godot: ">> \o cause),
               PyNone, c, reply)

\* Lines 151-154: the generic command's handler.
GenericError(c, cause, reply) ==
    CallResult(None, Exc("Exception", <<"Failed to communicate with Godot: ">> \o cause),
               PyNone, c, reply)

\* Line 141 as response.get("error", response.get("message", ...)): an empty
\* error field is not passed over.
ErrorMessage_NoFallback(response) ==
    Get(response, W_error, Get(response, W_message, JString(<<"Unknown Godot error">>)))

\* Line 141: response.get("error") or response.get("message", "Unknown Godot error")
ErrorMessage(response) ==
    IF ~Falsy(Get(response, W_error, PyNone)) THEN Get(response, W_error, PyNone)
    ELSE Get(response, W_message, JString(<<"Unknown Godot error">>))

\* Lines 145-150 without the test of line 146.
ResultOf_NoDefault(response) == Get(response, W_result, PyNone)

\* Lines 145-150: the result, {} when it is missing or None.
ResultOf(response) ==
    IF Get(response, W_result, PyNone) = PyNone THEN EmptyDict
    ELSE Get(response, W_result, PyNone)

\* Lines 134-150 on the loaded response.
GenericResponse(c, reply, loaded) ==
    IF ~loaded.ok THEN GenericError(c, <<loaded.err>>, reply)
    ELSE IF Falsy(loaded.val)
         THEN GenericError(c, <<"Invalid JSON response from Godot">>, reply)
    ELSE IF loaded.val.t # "object" THEN GenericError(c, <<"AttributeError">>, reply)
    ELSE IF Get(loaded.val, W_status, PyNone) = JString(W_error)
         THEN GenericError(c, PyStr(ErrorMessage(loaded.val)), reply)
    ELSE CallResult(c.sock, NoExc, ResultOf(loaded.val), c, reply)

\* Lines 124-154: a command other than ping on the connected socket c.sock.
Generic(c, io) ==
    IF ~io.send_ok THEN GenericError(c, <<"socket error">>, NoReply)
    ELSE IF io.reply.st = "raised" THEN GenericError(c, <<io.reply.err>>, io.reply)
    ELSE IF NoBytes(io.reply.ret)
         THEN GenericError(c, <<"Empty response from Godot">>, io.reply)
    ELSE GenericResponse(c, io.reply, io.loaded)

\* Lines 94-154 after the connect of line 94, whose result is c.
Dispatch(c, command_type, io) ==
    IF ~c.ok
    THEN CallResult(None, Exc("ConnectionError", <<"Not connected to Godot">>), PyNone,
                    [opened |-> FALSE, sock |-> None], NoReply)
    ELSE IF command_type = "ping" THEN Ping(c, io)
    ELSE Generic(c, io)

send_command(self_sock, command_type, io) ==
    Dispatch(connect(self_sock, io), command_type, io)

\* ------------------------------------------------------------------ state
VARIABLES
    peer_msg,   \* framing: the bytes the peer is sending in reply
    wire,       \* framing: those of them not yet received
    rx,         \* framing: the state of the receive_full_response call
    last_recv,  \* framing: what the last sock.recv gave ("none" before it)
    waited,     \* framing: the seconds the call has spent in sock.recv
    _godot_connection,  \* the module's cached connection: an object, or None
    sock,       \* self.sock of each GodotConnection object: a socket, or None
    sockets,    \* each socket: "unused", "open" (connected to the peer), "closed"
    godot,      \* the connection the caller got from the last acquire, or None
    last,       \* the last call made: what it was given and how it ended
    lifespan,   \* server_lifespan: "starting", "running" (at its yield), "stopped"
    startup_connection, \* server.py's own _godot_connection: an object, or None
    callers,    \* concurrency: each caller's place in send_command and what it got
    channel,    \* concurrency: the commands and the replies on the one socket
    poll        \* one invocation of a Meshy generation tool, from its poll loop on

frame_vars == <<peer_msg, wire, rx, last_recv, waited>>
lifespan_vars == <<lifespan, startup_connection>>
session_vars == <<_godot_connection, sock, sockets, godot, last, lifespan, startup_connection>>
thread_vars == <<callers, channel>>
vars ==
    <<peer_msg, wire, rx, last_recv, waited, _godot_connection, sock, sockets, godot, last,
      lifespan, startup_connection, callers, channel, poll>>

\* The GodotConnection objects and the sockets of one behaviour.
Conns == 1..(MaxSockets + 2)
Socks == 1..MaxSockets

\* Before any call: no connection is cached, no socket was opened.
SessionInit ==
    /\ _godot_connection = None
    /\ sock = [c \in Conns |-> None]
    /\ sockets = [k \in Socks |-> "unused"]
    /\ godot = None
    /\ last = [op |-> "none"]
    /\ lifespan = "starting"
    /\ startup_connection = None

\* The callers that use the connection at the same time, and the commands
\* each of them sends.
Callers == {1, 2}
\* No caller is inside send_command and nothing is on the socket.
ThreadIdle ==
    /\ callers = [t \in Callers |-> [pc |-> "idle", n |-> 0, got |-> <<>>]]
    /\ channel = [commands |-> <<>>, replies |-> <<>>]

\* ------------------------------------------------- the Meshy poll loops
\* config.meshy_timeout, in seconds.
meshy_timeout == 300

\* The tools that poll a generation task.
Tools == {"generate_mesh_from_text", "generate_mesh_from_image", "refine_generated_mesh"}

\* The tool that asks once for the state of a task; with it, the generation tools.
ProgressTool == "check_mesh_generation_progress"
GenerationTools == Tools \cup {ProgressTool}

\* check_interval and max_wait_time of each tool's loop.
check_interval(tool) ==
    CASE tool = "generate_mesh_from_text" -> 5
      [] tool = "generate_mesh_from_image" -> 15
      [] tool = "refine_generated_mesh" -> 20

\* The refinement's ceiling without its doubling.
MaxWaitTime_Same(base, tool) == base

\* Lines 99, 230 and 416: max_wait_time of a tool's loop when
\* config.meshy_timeout is base.
MaxWaitTime(base, tool) ==
    IF tool = "refine_generated_mesh" THEN base * 2 ELSE base

\* Every loop with the refinement's doubled ceiling.
max_wait_time_Doubled(tool) == meshy_timeout * 2

max_wait_time(tool) == MaxWaitTime(meshy_timeout, tool)

\* The path a tool posts its creation request to, and the path it asks a
\* task's status on (the task id follows it).
create_endpoint(tool) ==
    IF tool = "generate_mesh_from_image" THEN "/v2/image-to-3d" ELSE "/v2/text-to-3d"
status_endpoint(tool) ==
    IF tool = "generate_mesh_from_image" THEN "/v2/image-to-3d" ELSE "/v2/text-to-3d"

\* None, where the other values are strings.
NoValue == "None"

\* What status_data.get("model_urls", {}) can be: a dict from some of the
\* formats to a URL or to the empty string ({} also when the field is absent).
ModelUrls ==
    UNION { [D -> {"", "https://a", "https://b"}] : D \in SUBSET {"glb", "fbx", "obj"} }

\* The outcome of one status request: kind tells a response with status code
\* 200 from another status code and from a request that raised; of the JSON
\* body, its status, its model_urls and what it has as task_error.
StatusData(kind, status, model_urls, task_error) ==
    [kind |-> kind, status |-> status, model_urls |-> model_urls, task_error |-> task_error]

StatusResponses ==
    { StatusData("ok", "SUCCEEDED", d, "absent") : d \in ModelUrls }
      \cup { StatusData("ok", "FAILED", <<>>, e) : e \in {"absent", "message", "no message"} }
      \cup { StatusData("ok", st, <<>>, "absent") :
                st \in {"PENDING", "IN_PROGRESS", "EXPIRED", NoValue} }
      \cup { StatusData(k, NoValue, <<>>, "absent") : k \in {"http error", "raised"} }

\* model_urls.get(key), and a value that is truthy.
UrlGet(model_urls, key) == IF key \in DOMAIN model_urls THEN model_urls[key] ELSE NoValue
Truthy(value) == value \notin {"", NoValue}

\* The chain without its last link.
download_url_NoObj(model_urls) ==
    IF Truthy(UrlGet(model_urls, "glb")) THEN UrlGet(model_urls, "glb")
    ELSE UrlGet(model_urls, "fbx")

\* model_urls.get("glb") or model_urls.get("fbx") or model_urls.get("obj")
download_url(model_urls) ==
    IF Truthy(UrlGet(model_urls, "glb")) THEN UrlGet(model_urls, "glb")
    ELSE IF Truthy(UrlGet(model_urls, "fbx")) THEN UrlGet(model_urls, "fbx")
    ELSE UrlGet(model_urls, "obj")

\* The outcome of a creation request: kind tells an accepted status code from
\* another one and from a request that raised; result is task_data.get("result").
Created(kind, result) == [kind |-> kind, result |-> result]
CreateResponses ==
    { Created("ok", id) : id \in {"task", "", NoValue} }
      \cup { Created(k, NoValue) : k \in {"http error", "raised"} }

\* The record of an invocation, as it is at the top of its poll loop: api_key
\* is whether config.meshy_api_key is set, task the tool that created the task
\* whose id the invocation was given, posts the creation requests made and
\* created what the last of them gave, task_id the id polled, requests the
\* status requests made and endpoint the path of the last of them.
PollStart(tool, import_to_godot) ==
    [tool |-> tool, import_to_godot |-> import_to_godot, pc |-> "polling",
     api_key |-> TRUE, task |-> NoValue, posts |-> 0,
     created |-> Created("none", NoValue), task_id |-> NoValue,
     endpoint |-> NoValue,
     elapsed_time |-> 0, requests |-> 0, sleeps |-> 0,
     status_data |-> StatusData("none", NoValue, <<>>, "absent"),
     outcome |-> "none", message |-> "", download_url |-> NoValue, downloads |-> <<>>]

\* The invocation as the tool is entered.
ToolStart(tool, import_to_godot, api_key, task) ==
    [PollStart(tool, import_to_godot) EXCEPT
         !.pc = "start", !.api_key = api_key, !.task = task,
         !.task_id = IF tool = ProgressTool THEN "task" ELSE NoValue]

\* The test left to the tools that create a task.
NoApiKey_CreatingOnly(p) == ~p.api_key /\ p.tool \in Tools

\* not config.meshy_api_key
NoApiKey(p) == ~p.api_key

\* The tool returns before any status request.
ToolFails(p, outcome) == [p EXCEPT !.pc = "done", !.outcome = outcome]

\* The creation request of invocation p gave c: the tool returns an error or
\* enters its loop with the task id.
ToolCreate(p, c) ==
    IF c.kind = "raised"
    THEN ToolFails([p EXCEPT !.posts = @ + 1, !.created = c],
                   IF p.tool = "generate_mesh_from_text" THEN "network error" ELSE "error")
    ELSE IF c.kind = "http error"
    THEN ToolFails([p EXCEPT !.posts = @ + 1, !.created = c],
                   IF p.tool = "generate_mesh_from_text" THEN "network error"
                   ELSE "creation error")
    ELSE IF p.tool # "refine_generated_mesh" /\ ~Truthy(c.result)
    THEN ToolFails([p EXCEPT !.posts = @ + 1, !.created = c], "no task id")
    ELSE [p EXCEPT !.posts = @ + 1, !.created = c, !.pc = "polling", !.task_id = c.result]

\* What the status request for a task id can give: only an id the service
\* issued is answered with a task.
StatusResponsesFor(task_id) ==
    IF Truthy(task_id) THEN StatusResponses ELSE { r \in StatusResponses : r.kind # "ok" }

\* The return that sleeps once more, after the last status request.
PollDone_SleepsAfter(p, r, outcome, message) ==
    [p EXCEPT !.pc = "done", !.requests = @ + 1, !.status_data = r,
              !.endpoint = status_endpoint(p.tool), !.sleeps = @ + 1,
              !.outcome = outcome, !.message = message]

\* The invocation p returns after the status request that gave r; message is
\* the cause a failure outcome reports.
PollDone(p, r, outcome, message) ==
    [p EXCEPT !.pc = "done", !.requests = @ + 1, !.status_data = r,
              !.endpoint = status_endpoint(p.tool),
              !.outcome = outcome, !.message = message]

\* The SUCCEEDED branch: the URL is chosen; _download_mesh_to_project is called
\* with it when import_to_godot is set.
PollSucceeded(p, r, url) ==
    IF p.tool # "refine_generated_mesh" /\ r.model_urls = <<>>
    THEN PollDone(p, r, "no model urls", "")
    ELSE IF ~Truthy(url)
    THEN PollDone(p, r, "no supported format", "")
    ELSE [PollDone(p, r, "success", "") EXCEPT
              !.download_url = url,
              !.downloads = IF p.import_to_godot THEN <<url>> ELSE <<>>]

\* The PENDING and IN_PROGRESS branch: time.sleep(check_interval) and the
\* loop's test again.
PollSleep(p, r) ==
    [p EXCEPT !.requests = @ + 1, !.status_data = r, !.endpoint = status_endpoint(p.tool),
              !.sleeps = @ + 1, !.elapsed_time = @ + check_interval(p.tool)]

\* A failed status request that is slept on like a pending task.
PollRequestFailed_Retries(p, r) == PollSleep(p, r)

\* The status request raised, or its status code is not 200.
PollRequestFailed(p, r) ==
    IF r.kind = "raised"
    THEN PollDone(p, r, IF p.tool = "generate_mesh_from_text" THEN "network error" ELSE "error", "")
    ELSE PollDone(p, r, IF p.tool = "generate_mesh_from_text" THEN "network error"
                        ELSE "status check error", "")

\* The cause without the message of the task.
error_msg_AlwaysUnknown(task_error) == "Unknown error"

\* status_data.get("task_error", {}).get("message", "Unknown error")
error_msg(task_error) ==
    IF task_error = "message" THEN "task_error.message" ELSE "Unknown error"

\* A status that is none of the four, slept on like a pending task.
PollOtherStatus_Waits(p, r) == PollSleep(p, r)

\* The else branch: a status that is none of the four.
PollOtherStatus(p, r) == PollDone(p, r, "unknown status", "")

\* One iteration of the loop of invocation p, the status request giving r.
PollIteration(p, r) ==
    IF r.kind # "ok" THEN PollRequestFailed(p, r)
    ELSE IF r.status = "SUCCEEDED" THEN PollSucceeded(p, r, download_url(r.model_urls))
    ELSE IF r.status = "FAILED" THEN PollDone(p, r, "failed", error_msg(r.task_error))
    ELSE IF r.status \in {"PENDING", "IN_PROGRESS"} THEN PollSleep(p, r)
    ELSE PollOtherStatus(p, r)

\* check_mesh_generation_progress: its one status request gave r, and the
\* tool reports what the task's status is.
CheckProgress(p, r) ==
    IF r.kind = "raised" THEN PollDone(p, r, "network error", "")
    ELSE IF r.kind = "http error" THEN PollDone(p, r, "status check error", "")
    ELSE IF r.status = "SUCCEEDED" THEN PollDone(p, r, "succeeded", "")
    ELSE IF r.status = "FAILED" THEN PollDone(p, r, "failed", error_msg(r.task_error))
    ELSE IF r.status = "PENDING" THEN PollDone(p, r, "pending", "")
    ELSE IF r.status = "IN_PROGRESS" THEN PollDone(p, r, "in progress", "")
    ELSE PollDone(p, r, "unknown status", "")

\* No tool is polling.
PollIdle == poll = [pc |-> "idle"]

\* The framing specification runs no session; the session none of the framing.
FrameIdle ==
    /\ peer_msg = <<>>
    /\ wire = <<>>
    /\ rx = RxStart
    /\ last_recv = "none"
    /\ waited = 0

\* ------------------------------------------------ the framing specification
FrameInit ==
    /\ peer_msg \in Messages
    /\ wire = peer_msg
    /\ rx = RxStart
    /\ last_recv = "none"
    /\ waited = 0
    /\ SessionInit
    /\ ThreadIdle
    /\ PollIdle

Min(a, b) == IF a <= b THEN a ELSE b

\* sock.recv(buffer_size) returns the next k bytes.
RecvChunk ==
    /\ rx.st = "reading"
    /\ \E k \in 1..Min(Len(wire), buffer_size) :
          /\ rx' = RecvStep(rx.data, RecvBytes(SubSeq(wire, 1, k)))
          /\ wire' = SubSeq(wire, k + 1, Len(wire))
    /\ last_recv' = "chunk"
    /\ UNCHANGED <<peer_msg, waited, session_vars, thread_vars, poll>>

\* sock.recv returns b'': the peer closed the stream.
RecvClosed ==
    /\ rx.st = "reading"
    /\ rx' = RecvStep(rx.data, RecvBytes(<<>>))
    /\ last_recv' = "closed"
    /\ UNCHANGED <<peer_msg, wire, waited, session_vars, thread_vars, poll>>

\* sock.recv raises socket.timeout.
RecvTimeout ==
    /\ rx.st = "reading"
    /\ rx' = RecvStep(rx.data, RecvTimedOut)
    /\ last_recv' = "timeout"
    /\ UNCHANGED <<peer_msg, wire, waited, session_vars, thread_vars, poll>>

FrameNext == RecvChunk \/ RecvClosed \/ RecvTimeout

SpecFrame == FrameInit /\ [][FrameNext]_vars

\* ------------------------------------------------- the stream specification
\* A peer that never closes the stream and never completes a reply: whenever
\* it sends, it sends one more byte of text that begins no JSON document.
GarbageBytes == {"p", "o"}

\* The seconds the peer lets pass before a byte: less than the timeout that
\* line 50 sets, which sock.recv applies to each of its calls anew.
Delays == {connection_timeout \div 3, 2 * (connection_timeout \div 3)}

\* The buffer as the model keeps it: its first bytes and its last one.  No
\* text that begins with a garbage byte is a JSON document or has the pong
\* prefix, whatever follows, so that the check of lines 62-79 gives the same
\* on the kept bytes as on all of them.
Kept(data) == SubSeq(data, 1, Min(Len(data), MaxBuffer - 1))

\* The call has just begun; no byte has arrived.
StreamInit ==
    /\ FrameIdle
    /\ SessionInit
    /\ ThreadIdle
    /\ PollIdle

\* sock.recv returns a byte that arrived within the timeout.
PeerDelivers ==
    /\ rx.st = "reading"
    /\ \E b \in GarbageBytes, d \in Delays :
          /\ d < connection_timeout
          /\ rx' = RecvStep(Kept(rx.data), RecvBytes(<<b>>))
          /\ waited' = Min(waited + d, MaxWaited)
    /\ last_recv' = "chunk"
    /\ UNCHANGED <<peer_msg, wire, session_vars, thread_vars, poll>>

\* No byte arrives for connection_timeout seconds: sock.recv raises
\* socket.timeout.
PeerSilent ==
    /\ rx.st = "reading"
    /\ rx' = RecvStep(rx.data, RecvTimedOut)
    /\ waited' = Min(waited + connection_timeout, MaxWaited)
    /\ last_recv' = "timeout"
    /\ UNCHANGED <<peer_msg, wire, session_vars, thread_vars, poll>>

StreamNext == PeerDelivers \/ PeerSilent

\* Each sock.recv returns or raises: within the timeout a byte arrives or
\* the timeout expires.
SpecStream == StreamInit /\ [][StreamNext]_vars /\ WF_vars(StreamNext)

\* ------------------------------------------------ the session specification
\* The sockets opened so far.
NumSockets == Cardinality({k \in Socks : sockets[k] # "unused"})

\* The object a new GodotConnection() is: one that holds no socket and that
\* neither the module nor the caller refers to.
NewConn ==
    CHOOSE c \in Conns :
        /\ sock[c] = None /\ c \notin {godot, _godot_connection, startup_connection}
        /\ \A b \in 1..(c - 1) :
              sock[b] # None \/ b \in {godot, _godot_connection, startup_connection}

\* The network's part in a call of send_command on a connection whose handle
\* is self_sock, when fresh is the next unused socket: a connect is tried only
\* without a handle, and only a connected socket sends and receives.
IOs(self_sock, fresh) ==
    { IO(FALSE, fresh, FALSE, NoExchange) : x \in IF self_sock = None THEN {1} ELSE {} }
      \cup IF self_sock = None /\ fresh \notin Socks THEN {}
           ELSE { IO(TRUE, fresh, FALSE, NoExchange) }
                  \cup { IO(TRUE, fresh, TRUE, x) : x \in Exchanges }

\* The socket table after a call that opened the sockets of opened and closed
\* those of closed.
SocketsAfter(opened, closed) ==
    [k \in Socks |-> IF k \in closed THEN "closed"
                     ELSE IF k \in opened THEN "open"
                     ELSE sockets[k]]

\* Line 50: the timeout receive_full_response sets on the socket before it
\* reads the reply to a command of type command_type, in seconds.  Neither
\* send_command nor get_godot_connection sets another one.
settimeout(command_type) == connection_timeout

\* What a call leaves in last; timeout is the timeout its last receive ran
\* with, None when it received nothing.
Call(op, cmd, conn, exc, ret, pings, opened, sent_on, reply) ==
    [op |-> op, cmd |-> cmd, conn |-> conn, raised |-> exc.type # "none", exc |-> exc,
     ret |-> ret, pings |-> pings, opened |-> opened, sent_on |-> sent_on, reply |-> reply,
     timeout |-> IF reply = NoReply THEN None ELSE settimeout(cmd)]

\* Lines 184-196 without line 195: the new connection stays cached when its
\* ping failed.
AcquireVerified_KeepsCached(cleared, new, r, d, before, pings) ==
    /\ _godot_connection' = new
    /\ sock' = [cleared EXCEPT ![new] = IF r.raised THEN d.sock ELSE r.sock]
    /\ sockets' = SocketsAfter(before \cup {r.sent_on},
                               IF r.raised /\ d.closed # None THEN {d.closed} ELSE {})
    /\ godot' = IF r.raised THEN None ELSE new
    /\ last' = Call("acquire", "ping", IF r.raised THEN None ELSE new,
                    IF r.raised
                    THEN Exc("ConnectionError",
                             <<"Could not establish valid Godot connection: ">> \o r.exc.msg)
                    ELSE NoExc,
                    PyNone, pings + 1, Cardinality(before) + 1, r.sent_on, r.reply)

\* Lines 184-196: the ping r of the new connection new, and the disconnect d of
\* line 192 when it failed.  cleared is sock without the discarded connection's
\* handle, before the sockets the call opened before, pings the pings it sent.
AcquireVerified(cleared, new, r, d, before, pings) ==
    /\ _godot_connection' = IF r.raised THEN None ELSE new
    /\ sock' = [cleared EXCEPT ![new] = IF r.raised THEN d.sock ELSE r.sock]
    /\ sockets' = SocketsAfter(before \cup {r.sent_on},
                               IF r.raised /\ d.closed # None THEN {d.closed} ELSE {})
    /\ godot' = IF r.raised THEN None ELSE new
    /\ last' = Call("acquire", "ping", IF r.raised THEN None ELSE new,
                    IF r.raised
                    THEN Exc("ConnectionError",
                             <<"Could not establish valid Godot connection: ">> \o r.exc.msg)
                    ELSE NoExc,
                    PyNone, pings + 1, Cardinality(before) + 1, r.sent_on, r.reply)

\* Lines 180-182: the new connection could not connect.
AcquireRefused(cleared, before, pings) ==
    /\ _godot_connection' = None
    /\ sock' = cleared
    /\ sockets' = SocketsAfter(before, {})
    /\ godot' = None
    /\ last' = Call("acquire", "ping", None,
                    Exc("ConnectionError", <<"Could not connect to Godot. Ensure the Godot Editor and MCP Bridge are running.">>),
                    PyNone, pings, Cardinality(before), None, NoReply)

\* Lines 180-196 after the connect of line 180, whose result is c.
AcquireConnected(cleared, new, c, r, close_ok, before, pings) ==
    IF ~c.ok THEN AcquireRefused(cleared, before, pings)
    ELSE AcquireVerified(cleared, new, r, disconnect(r.sock, close_ok), before, pings)

\* Lines 177-196: a new connection is created, fresh being the next unused
\* socket.
AcquireNew(cleared, new, fresh, before, pings) ==
    \E io \in IOs(None, fresh), close_ok \in BOOLEAN :
        AcquireConnected(cleared, new, connect(None, io),
                         send_command(connect(None, io).sock, "ping", io),
                         close_ok, before, pings)

\* Lines 162-168: the ping r of the cached connection succeeded.
AcquireReused(r) ==
    /\ sock' = [sock EXCEPT ![_godot_connection] = r.sock]
    /\ sockets' = SocketsAfter(IF r.opened THEN {r.sent_on} ELSE {}, {})
    /\ godot' = _godot_connection
    /\ last' = Call("acquire", "ping", _godot_connection, NoExc, PyNone, 1,
                    IF r.opened THEN 1 ELSE 0, r.sent_on, r.reply)
    /\ UNCHANGED _godot_connection

\* Lines 169-175: the ping r of the cached connection failed; d is the
\* disconnect of line 172.
AcquireDiscard(r, d) ==
    AcquireNew([sock EXCEPT ![_godot_connection] = d.sock], NewConn,
               NumSockets + 1 + (IF r.opened THEN 1 ELSE 0),
               IF r.opened THEN {r.sent_on} ELSE {}, 1)

\* Lines 162-175: the ping r of the cached connection.
AcquireCached(r, close_ok) ==
    IF ~r.raised THEN AcquireReused(r)
    ELSE AcquireDiscard(r, disconnect(r.sock, close_ok))

\* Lines 159-196: one call of get_godot_connection.
Acquire ==
    /\ FrameIdle
    /\ UNCHANGED <<frame_vars, thread_vars, poll, thread_vars>>
    /\ IF _godot_connection # None
       THEN \E io \in IOs(sock[_godot_connection], NumSockets + 1), close_ok \in BOOLEAN :
               AcquireCached(send_command(sock[_godot_connection], "ping", io), close_ok)
       ELSE AcquireNew(sock, NewConn, NumSockets + 1, {}, 0)

\* A tool calls get_godot_connection while the server runs.
get_godot_connection ==
    /\ lifespan = "running"
    /\ Acquire
    /\ UNCHANGED lifespan_vars

\* server.py lines 27-36: server_lifespan up to its yield.  It keeps what
\* get_godot_connection returned, or None when that raised, in its own global.
ServerStartup ==
    /\ lifespan = "starting"
    /\ Acquire
    /\ startup_connection' = godot'
    /\ lifespan' = "running"

\* The commands a caller sends.
CommandTypes == {"ping", "GET_SCENE_INFO"}

\* What a call of send_command on the caller's connection leaves.
SendDone(cmd, r) ==
    /\ sock' = [sock EXCEPT ![godot] = r.sock]
    /\ sockets' = SocketsAfter(IF r.opened THEN {r.sent_on} ELSE {}, {})
    /\ last' = Call("send", cmd, godot, r.exc, r.ret, IF cmd = "ping" THEN 1 ELSE 0,
                    IF r.opened THEN 1 ELSE 0, r.sent_on, r.reply)

\* The caller calls send_command on the connection it got.
SendCommand ==
    /\ FrameIdle
    /\ lifespan = "running"
    /\ godot # None
    /\ \E cmd \in CommandTypes, io \in IOs(sock[godot], NumSockets + 1) :
          SendDone(cmd, send_command(sock[godot], cmd, io))
    /\ UNCHANGED <<frame_vars, thread_vars, poll, _godot_connection, godot, lifespan_vars>>

\* What line 41 did in a call of disconnect on the handle self_sock.
Closing(self_sock, close_ok) ==
    IF self_sock = None THEN "no socket" ELSE IF close_ok THEN "close" ELSE "close raises"

\* What a call of disconnect on the connection conn leaves: d is the call's
\* result, how what its close did; last keeps the handle it found in sent_on.
DisconnectDone(op, conn, d, how) ==
    /\ sock' = [sock EXCEPT ![conn] = d.sock]
    /\ sockets' = SocketsAfter({}, IF d.closed # None THEN {d.closed} ELSE {})
    /\ last' = Call(op, how, conn, NoExc, PyNone, 0, 0, sock[conn], NoReply)

\* The caller calls disconnect on the connection it got.
Disconnect ==
    /\ FrameIdle
    /\ lifespan = "running"
    /\ godot # None
    /\ \E close_ok \in BOOLEAN :
          DisconnectDone("disconnect", godot, disconnect(sock[godot], close_ok),
                         Closing(sock[godot], close_ok))
    /\ UNCHANGED <<frame_vars, thread_vars, poll, _godot_connection, godot, lifespan_vars>>

\* server.py lines 37-41: server_lifespan after its yield disconnects the
\* connection it got at startup, if it got one.
ServerShutdown ==
    /\ FrameIdle
    /\ lifespan = "running"
    /\ lifespan' = "stopped"
    /\ startup_connection' = None
    /\ IF startup_connection # None
       THEN \E close_ok \in BOOLEAN :
               DisconnectDone("shutdown", startup_connection,
                              disconnect(sock[startup_connection], close_ok),
                              Closing(sock[startup_connection], close_ok))
       ELSE /\ last' = Call("shutdown", "no connection", None, NoExc, PyNone, 0, 0, None, NoReply)
            /\ UNCHANGED <<sock, sockets>>
    /\ UNCHANGED <<frame_vars, thread_vars, poll, _godot_connection, godot>>

\* The sockets no connection object holds in its handle.
Unreferenced == { k \in Socks : \A c \in Conns : sock[c] # k }

\* Lines 107, 114, 120 and 153 clear self.sock without closing the socket, and
\* so does disconnect when close raises: the socket object is left to the
\* garbage collector, which closes it when, and if, it finalises the object.
Finalize ==
    /\ FrameIdle
    /\ \E k \in Unreferenced :
          /\ sockets[k] = "open"
          /\ sockets' = [sockets EXCEPT ![k] = "closed"]
    /\ UNCHANGED <<frame_vars, thread_vars, poll, _godot_connection, sock, godot, last, lifespan_vars>>

Init == FrameIdle /\ SessionInit /\ ThreadIdle /\ PollIdle

Next ==
    \/ ServerStartup
    \/ get_godot_connection
    \/ SendCommand
    \/ Disconnect
    \/ Finalize
    \/ ServerShutdown

Spec == Init /\ [][Next]_vars

\* ------------------------------------------------ the recovery specification
\* The socket the error reply arrives on: the first one the session opened.
ErrorSocket == CHOOSE k \in Socks : \A j \in Socks : k <= j

\* The session as the call r of send_command leaves it, made on the cached
\* connection 1 while it held ErrorSocket; the tool that made the call has
\* returned, so that no caller holds the connection.
RecoverFrom(cmd, r) ==
    /\ _godot_connection = 1
    /\ startup_connection = 1
    /\ lifespan = "running"
    /\ godot = None
    /\ sock = [c \in Conns |-> IF c = 1 THEN r.sock ELSE None]
    /\ sockets = [k \in Socks |-> IF k = ErrorSocket THEN "open" ELSE "unused"]
    /\ last = Call("send", cmd, 1, r.exc, r.ret, 0, 0, r.sent_on, r.reply)

\* A tool has sent a generic command on the cached connection and the peer
\* has answered it with a reply whose status is "error".
RecoverInit ==
    /\ FrameIdle
    /\ ThreadIdle
    /\ PollIdle
    /\ \E io \in IOs(ErrorSocket, ErrorSocket + 1) :
          /\ io.send_ok
          /\ io.loaded.ok
          /\ io.loaded.val.t = "object"
          /\ Get(io.loaded.val, W_status, PyNone) = JString(W_error)
          /\ RecoverFrom("GET_SCENE_INFO", send_command(ErrorSocket, "GET_SCENE_INFO", io))

RecoverNext ==
    \/ get_godot_connection
    \/ SendCommand
    \/ Disconnect
    \/ Finalize
    \/ ServerShutdown

SpecRecover == RecoverInit /\ [][RecoverNext]_vars

\* ---------------------------------------------------- the tool specification
\* A tool that sends whatever its last call did.
ToolMaySend_AfterRaise(l) == TRUE

\* The tools' use of a connection (object_tools, scene_tools and the others:
\* get_godot_connection().send_command(...) inside a try; meshy_tools lines
\* 556-584: one get_godot_connection, then up to three commands): a command is
\* sent right after get_godot_connection returned or after the command before
\* it returned, since an exception leaves the tool through its handler.
ToolMaySend(l) == l.op \in {"acquire", "send"} /\ ~l.raised

\* A tool sends a command on the connection it got.
ToolSend ==
    /\ ToolMaySend(last)
    /\ SendCommand

\* The server and its tools, one at a time.
ToolNext ==
    \/ ServerStartup
    \/ get_godot_connection
    \/ ToolSend
    \/ Finalize
    \/ ServerShutdown

SpecTool == Init /\ [][ToolNext]_vars

\* The handle the caller holds after a call that returned is the socket that
\* call pinged or sent on.
ProbedHandle ==
    /\ (last.op = "acquire" /\ ~last.raised)
          => /\ last.pings >= 1
             /\ last.sent_on # None
             /\ godot # None
             /\ sock[godot] = last.sent_on
    /\ (last.op = "send" /\ ~last.raised)
          => sock[godot] = last.sent_on

\* C35: with a caller that obtains its connection through
\* get_godot_connection, every generic command is sent on a socket on which a
\* ping has succeeded and on which nothing has failed since: the call before
\* it was an acquire or a command that returned, on that same socket, and the
\* auto-connect of send_command opens no socket for it.
C35_GenericOnProbedSocket ==
    /\ []ProbedHandle
    /\ [][(/\ last' # last
           /\ last'.op = "send"
           /\ last'.cmd # "ping")
             => /\ last.op \in {"acquire", "send"}
                /\ ~last.raised
                /\ last.sent_on # None
                /\ last'.sent_on = last.sent_on
                /\ last'.opened = 0]_vars

\* A generic command returned on the socket the acquire had pinged.
C35_Witness ==
    /\ last.op = "send"
    /\ last.cmd = "GET_SCENE_INFO"
    /\ ~last.raised
    /\ last.opened = 0
    /\ last.sent_on # None

\* ------------------------------------------------- the command specification
\* One caller uses one GodotConnection object, one call at a time; the peer
\* answers every command it receives with one JSON document, which arrives in
\* chunks of any sizes.  wire is what the socket of the handle holds unread.
TheConnection == CHOOSE c \in Conns : \A d \in Conns : c <= d

\* The caller has constructed the object (line 21: no socket).
CommandInit ==
    /\ FrameIdle
    /\ ThreadIdle
    /\ PollIdle
    /\ _godot_connection = None
    /\ sock = [c \in Conns |-> None]
    /\ sockets = [k \in Socks |-> "unused"]
    /\ godot = TheConnection
    /\ last = [op |-> "none"]
    /\ lifespan = "running"
    /\ startup_connection = None

\* The unread bytes of the socket of the handle after a call: those of a new
\* or of no socket are none.
Unread(handle, opened) == IF handle = None \/ opened THEN <<>> ELSE wire

\* Lines 23-35: the caller calls connect on its connection.  last keeps the
\* handle the call found in sent_on.
Connect ==
    /\ last.op # "sending"
    /\ \E connect_ok \in BOOLEAN :
          LET io == IO(connect_ok, NumSockets + 1, FALSE, NoExchange)
              c == connect(sock[godot], io)
          IN  /\ sock[godot] = None => (connect_ok => io.fresh \in Socks)
              /\ sock[godot] # None => connect_ok
              /\ sock' = [sock EXCEPT ![godot] = c.sock]
              /\ sockets' = SocketsAfter(IF c.opened THEN {c.sock} ELSE {}, {})
              /\ wire' = Unread(c.sock, c.opened)
              /\ last' = Call("connect",
                              IF sock[godot] # None THEN "connected"
                              ELSE IF connect_ok THEN "accepted" ELSE "refused",
                              godot, NoExc, IF c.ok THEN JTrue ELSE JFalse, 0,
                              IF c.opened THEN 1 ELSE 0, sock[godot], NoReply)
    /\ UNCHANGED <<peer_msg, rx, last_recv, waited, thread_vars, poll,
                   _godot_connection, godot, lifespan_vars>>

\* What a finished call of send_command leaves, r being its result and opened
\* whether its connect opened a socket.
CommandDone(cmd, r, opened) ==
    /\ SendDone(cmd, [r EXCEPT !.opened = opened])
    /\ wire' = Unread(r.sock, FALSE)

\* Lines 94-127: send_command up to its receive.  A connect that fails or a
\* sendall that raises ends the call; otherwise the command is on its way, and
\* the peer's reply m to it follows what the socket already holds.
CommandSent ==
    /\ last.op # "sending"
    /\ \E cmd \in CommandTypes, connect_ok \in BOOLEAN, send_ok \in BOOLEAN :
          LET io == IO(connect_ok, NumSockets + 1, send_ok, NoExchange)
              c == connect(sock[godot], io)
          IN  /\ sock[godot] = None => (connect_ok => io.fresh \in Socks)
              /\ sock[godot] # None => connect_ok
              /\ ~c.ok => ~send_ok
              /\ IF c.ok /\ send_ok
                 THEN /\ sock' = [sock EXCEPT ![godot] = c.sock]
                      /\ sockets' = SocketsAfter(IF c.opened THEN {c.sock} ELSE {}, {})
                      /\ last' = [op |-> "sending", cmd |-> cmd, opened |-> c.opened,
                                  sent_on |-> c.sock]
                      /\ \E m \in ReplyDocuments :
                            /\ peer_msg' = m
                            /\ wire' = Unread(c.sock, c.opened) \o m
                 ELSE /\ CommandDone(cmd, send_command(sock[godot], cmd, io), c.opened)
                      /\ peer_msg' = <<>>
    /\ rx' = RxStart
    /\ last_recv' = "none"
    /\ UNCHANGED <<waited, thread_vars, poll, _godot_connection, godot, lifespan_vars>>

\* Lines 47-89 inside the call: one sock.recv of receive_full_response.
CommandRecv ==
    /\ last.op = "sending"
    /\ FrameNext

\* Lines 128-154: send_command after its receive.
CommandReturns ==
    /\ last.op = "sending"
    /\ rx.st # "reading"
    /\ CommandDone(last.cmd,
                   send_command(sock[godot], last.cmd,
                                IO(TRUE, NumSockets + 1, TRUE, Exchange(RxResult(rx)))),
                   last.opened)
    /\ UNCHANGED <<peer_msg, rx, last_recv, waited, thread_vars, poll,
                   _godot_connection, godot, lifespan_vars>>

CommandNext == Connect \/ CommandSent \/ CommandRecv \/ CommandReturns

SpecCommand == CommandInit /\ [][CommandNext]_vars

\* -------------------------------------------- the concurrent specification
\* Two callers share the cached connection, whose socket is open, and each
\* runs send_command on it; the code takes no lock, so their statements
\* interleave.  A command is <<caller, number>>; the peer answers the commands
\* it receives in order, a reply naming the command it answers.
ConcurrentInit ==
    /\ FrameIdle
    /\ ThreadIdle
    /\ PollIdle
    /\ _godot_connection = 1
    /\ sock = [c \in Conns |-> IF c = 1 THEN 1 ELSE None]
    /\ sockets = [k \in Socks |-> IF k = 1 THEN "open" ELSE "unused"]
    /\ godot = 1
    /\ last = [op |-> "none"]
    /\ lifespan = "running"
    /\ startup_connection = 1

\* Lines 102 and 127: self.sock.sendall(...) by caller t.
CallerSend(t) ==
    /\ callers[t].pc = "idle"
    /\ callers[t].n < MaxCommands
    /\ callers' = [callers EXCEPT ![t].pc = "sent", ![t].n = @ + 1, ![t].got = <<>>]
    /\ channel' = [channel EXCEPT !.commands = Append(@, <<t, callers[t].n + 1>>)]
    /\ UNCHANGED <<frame_vars, session_vars, poll>>

\* The peer answers the oldest command it has received.
PeerReply ==
    /\ channel.commands # <<>>
    /\ channel' = [commands |-> Tail(channel.commands),
                   replies |-> Append(channel.replies, Head(channel.commands))]
    /\ UNCHANGED <<frame_vars, session_vars, poll, callers>>

\* Lines 103 and 128: caller t's receive_full_response reads what the socket
\* holds: the first j replies.  One reply is a JSON document and is returned;
\* two run together are none, and the call ends without a response.
CallerReceive(t) ==
    /\ callers[t].pc = "sent"
    /\ \E j \in 1..Len(channel.replies) :
          /\ callers' = [callers EXCEPT ![t].pc = "idle",
                                        ![t].got = IF j = 1 THEN Head(channel.replies)
                                                   ELSE <<0, 0>>]
          /\ channel' = [channel EXCEPT !.replies = SubSeq(@, j + 1, Len(@))]
    /\ UNCHANGED <<frame_vars, session_vars, poll>>

ConcurrentNext == \E t \in Callers : CallerSend(t) \/ PeerReply \/ CallerReceive(t)

SpecConcurrent == ConcurrentInit /\ [][ConcurrentNext]_vars

\* C19: with two callers, at most one command is in flight on the connection
\* (sent and its response not yet received by its caller), and a caller that
\* received a response received the one to its own command.
C19_OneCommandInFlight ==
    /\ Cardinality({ t \in Callers : callers[t].pc = "sent" }) <= 1
    /\ \A t \in Callers :
          callers[t].got # <<>> => callers[t].got = <<t, callers[t].n>>

\* -------------------------------------------------- the poll specification
\* A generation tool is entered, with or without the API key configured; task
\* is the tool that created the task whose id the tool is given.
PollInit ==
    /\ FrameIdle
    /\ SessionInit
    /\ ThreadIdle
    /\ \E tool \in GenerationTools, import_to_godot \in BOOLEAN, api_key \in BOOLEAN :
           \E task \in (IF tool = ProgressTool THEN Tools ELSE {NoValue}) :
               poll = ToolStart(tool, import_to_godot, api_key, task)

\* The API key is not configured: the tool returns at once.
ToolRefused ==
    /\ poll.pc = "start"
    /\ NoApiKey(poll)
    /\ poll' = ToolFails(poll, "no api key")
    /\ UNCHANGED <<frame_vars, session_vars, thread_vars>>

\* The creation request of a tool that creates a task.
ToolCreates ==
    /\ poll.pc = "start"
    /\ ~NoApiKey(poll)
    /\ poll.tool \in Tools
    /\ \E c \in CreateResponses : poll' = ToolCreate(poll, c)
    /\ UNCHANGED <<frame_vars, session_vars, thread_vars>>

\* The one status request of check_mesh_generation_progress.
ToolChecks ==
    /\ poll.pc = "start"
    /\ ~NoApiKey(poll)
    /\ poll.tool = ProgressTool
    /\ \E r \in StatusResponsesFor(poll.task_id) : poll' = CheckProgress(poll, r)
    /\ UNCHANGED <<frame_vars, session_vars, thread_vars>>

\* The loop's test holds: one status request and what the loop does with it.
PollStatus ==
    /\ poll.pc = "polling"
    /\ poll.elapsed_time < max_wait_time(poll.tool)
    /\ \E r \in StatusResponsesFor(poll.task_id) : poll' = PollIteration(poll, r)
    /\ UNCHANGED <<frame_vars, session_vars, thread_vars>>

\* The loop's test fails: the tool returns its timeout message.
PollExpired ==
    /\ poll.pc = "polling"
    /\ poll.elapsed_time >= max_wait_time(poll.tool)
    /\ poll' = [poll EXCEPT !.pc = "done", !.outcome = "timeout"]
    /\ UNCHANGED <<frame_vars, session_vars, thread_vars>>

PollNext == ToolRefused \/ ToolCreates \/ ToolChecks \/ PollStatus \/ PollExpired

SpecPoll == PollInit /\ [][PollNext]_vars

\* The tool's thread runs on: a request returns or raises within its timeout
\* of 30 seconds, and time.sleep returns.
SpecPollFair == SpecPoll /\ WF_vars(PollNext)

\* The first of glb, fbx, obj that model_urls gives a non-empty URL for.
Usable(model_urls) == { k \in DOMAIN model_urls : model_urls[k] # "" }
FirstUsable(model_urls) ==
    IF "glb" \in Usable(model_urls) THEN "glb"
    ELSE IF "fbx" \in Usable(model_urls) THEN "fbx"
    ELSE "obj"

\* C20: in each poll loop, a poll that returns SUCCEEDED ends the invocation;
\* with a non-empty URL for glb, fbx or obj it succeeds with the URL of the
\* first of these, downloading that URL and no other; with none it ends with
\* a no-usable-artifact error and downloads nothing.
C20_FirstUsableFormat ==
    (poll.pc # "idle" /\ poll.tool \in Tools /\ poll.status_data.status = "SUCCEEDED") =>
        /\ poll.pc = "done"
        /\ IF Usable(poll.status_data.model_urls) # {}
           THEN /\ poll.outcome = "success"
                /\ poll.download_url =
                       poll.status_data.model_urls[FirstUsable(poll.status_data.model_urls)]
                /\ poll.downloads = IF poll.import_to_godot THEN <<poll.download_url>> ELSE <<>>
           ELSE /\ poll.outcome \in {"no model urls", "no supported format"}
                /\ poll.download_url = NoValue
                /\ poll.downloads = <<>>

\* Only obj is usable, glb being empty and fbx absent, and it is downloaded.
C20_Witness ==
    /\ poll.pc = "done"
    /\ poll.tool \in Tools
    /\ poll.status_data.status = "SUCCEEDED"
    /\ Usable(poll.status_data.model_urls) = {"obj"}
    /\ DOMAIN poll.status_data.model_urls = {"glb", "obj"}
    /\ poll.outcome = "success"
    /\ poll.downloads = <<poll.status_data.model_urls["obj"]>>

\* The ceiling of each loop as configured: config.meshy_timeout, and twice
\* that for the refinement; the most status requests a loop can make under it.
Ceiling(tool) == IF tool = "refine_generated_mesh" THEN 2 * meshy_timeout ELSE meshy_timeout
CeilDiv(a, b) == (a + b - 1) \div b
MostRequests(tool) == CeilDiv(Ceiling(tool), check_interval(tool))
InLoop == poll.pc # "idle" /\ poll.tool \in Tools

\* C21: a loop whose polls all return PENDING or IN_PROGRESS ends with the
\* timeout outcome once the accumulated wait has reached the ceiling; no
\* status request is made from then on, so the loop makes at most
\* ceiling / interval requests, rounded up; and every invocation ends.
C21_TimeoutAtCeiling ==
    /\ [](InLoop =>
            /\ poll.requests <= MostRequests(poll.tool)
            /\ (poll.pc = "polling" /\ poll.elapsed_time >= Ceiling(poll.tool)) =>
                   ~ENABLED PollStatus /\ ENABLED PollExpired
            /\ (poll.outcome = "timeout") =>
                   /\ poll.elapsed_time >= Ceiling(poll.tool)
                   /\ poll.requests = MostRequests(poll.tool)
                   /\ poll.sleeps = poll.requests
                   /\ poll.status_data.status \in {"PENDING", "IN_PROGRESS"})
    /\ [][(InLoop /\ poll.elapsed_time >= Ceiling(poll.tool)) =>
              (poll'.requests = poll.requests /\ poll'.outcome = "timeout")]_vars
    /\ <>(poll.pc = "done")

\* The image tool times out after its twenty polls, the last one IN_PROGRESS.
C21_Witness ==
    /\ poll.pc = "done"
    /\ poll.tool = "generate_mesh_from_image"
    /\ poll.outcome = "timeout"
    /\ poll.requests = 20
    /\ poll.elapsed_time = 300
    /\ poll.status_data.status = "IN_PROGRESS"

\* C22: when the first k polls return PENDING or IN_PROGRESS and the next one
\* SUCCEEDED with a usable URL, the tool succeeds with that URL after exactly
\* k + 1 status requests and k sleeps: it sleeps once after each pending poll,
\* not before the first poll and not after the terminal one.
C22_SleepsBetweenPolls ==
    InLoop =>
        /\ poll.elapsed_time = poll.sleeps * check_interval(poll.tool)
        /\ (poll.pc \in {"start", "polling"}) => poll.requests = poll.sleeps
        /\ (poll.pc = "polling" /\ poll.requests = 0) => poll.elapsed_time = 0
        /\ (poll.pc = "done" /\ poll.requests > 0 /\ poll.outcome # "timeout") =>
               poll.requests = poll.sleeps + 1
        /\ (poll.outcome = "success") =>
               /\ poll.status_data.status = "SUCCEEDED"
               /\ poll.requests = poll.sleeps + 1
               /\ poll.download_url =
                      poll.status_data.model_urls[FirstUsable(poll.status_data.model_urls)]

\* Two pending polls, then SUCCEEDED with a glb URL: three requests, two sleeps.
C22_Witness ==
    /\ poll.pc = "done"
    /\ poll.tool = "generate_mesh_from_text"
    /\ poll.outcome = "success"
    /\ poll.sleeps = 2
    /\ poll.requests = 3
    /\ poll.elapsed_time = 10
    /\ poll.download_url = "https://a"

\* A generation tool has been entered; its last status request was answered
\* with status code 200.
InTool == poll.pc # "idle"
Answered == InTool /\ poll.status_data.kind = "ok"

\* C23: in every tool that creates a task (text, image, refine), a creation
\* response that carries no task id ends the invocation with a fatal error,
\* and the invocation makes no status request at all.
C23_NoTaskIdNoPolling ==
    (InLoop /\ poll.created.kind = "ok" /\ ~Truthy(poll.created.result)) =>
        /\ poll.pc = "done"
        /\ poll.outcome = "no task id"
        /\ poll.requests = 0

\* C24: a poll whose status is none of SUCCEEDED, FAILED, PENDING,
\* IN_PROGRESS (a missing status too) ends the invocation at once with the
\* unknown-status outcome: no sleep and no request follows it.
C24_UnknownStatusEnds ==
    (Answered /\ poll.status_data.status \notin {"SUCCEEDED", "FAILED", "PENDING", "IN_PROGRESS"}) =>
        /\ poll.pc = "done"
        /\ poll.outcome = "unknown status"
        /\ poll.requests = poll.sleeps + 1
        /\ ~ENABLED PollNext

\* The image tool's second poll has no status field.
C24_Witness ==
    /\ poll.pc = "done"
    /\ poll.tool = "generate_mesh_from_image"
    /\ poll.status_data.kind = "ok"
    /\ poll.status_data.status = NoValue
    /\ poll.outcome = "unknown status"
    /\ poll.requests = 2
    /\ poll.sleeps = 1

C26_NoKeyNoRequest ==
    (InTool /\ ~poll.api_key) =>
        /\ poll.posts = 0
        /\ poll.requests = 0
        /\ poll.downloads = <<>>
        /\ poll.pc \in {"start", "done"}
        /\ (poll.pc = "done") => (poll.outcome = "no api key" /\ ~ENABLED PollNext)

\* The progress check has returned without the key.
C26_Witness ==
    /\ poll.pc = "done"
    /\ poll.tool = ProgressTool
    /\ ~poll.api_key
    /\ poll.outcome = "no api key"
    /\ poll.requests = 0

\* C27: a status request that fails at the network level (it raises, or its
\* status code is not the accepted one) aborts the invocation with an error
\* outcome; it is not repeated and no status request follows it.
C27_FailedRequestAborts ==
    (InTool /\ poll.status_data.kind \in {"http error", "raised"}) =>
        /\ poll.pc = "done"
        /\ poll.outcome \in {"network error", "status check error", "error"}
        /\ poll.requests = poll.sleeps + 1
        /\ ~ENABLED PollNext

\* The text tool's third status request is answered with an error status code.
C27_Witness ==
    /\ poll.pc = "done"
    /\ poll.tool = "generate_mesh_from_text"
    /\ poll.status_data.kind = "http error"
    /\ poll.outcome = "network error"
    /\ poll.requests = 3
    /\ poll.sleeps = 2

\* C28: check_mesh_generation_progress, given the id of a task that the
\* text, image or refine tool created, makes exactly one status request, on
\* the endpoint the task was created on, and no creation request.
C28_ProgressOnTaskEndpoint ==
    (InTool /\ poll.tool = ProgressTool /\ poll.api_key /\ poll.pc = "done") =>
        /\ poll.requests = 1
        /\ poll.posts = 0
        /\ poll.endpoint = create_endpoint(poll.task)

\* ------------------------------------------- the configuration specification
\* The server runs with some positive config.meshy_timeout; no loop has been
\* set up.
ConfigInit ==
    /\ FrameIdle
    /\ SessionInit
    /\ ThreadIdle
    /\ \E base \in (1..MaxTimeout) \cup {meshy_timeout} :
           poll = [pc |-> "configured", meshy_timeout |-> base, loops |-> [t \in {} |-> 0]]

\* Lines 99-101, 230-232 and 416-418: a generation tool sets up its loop; loops
\* keeps what each tool set up when it last ran.
LoopSetup ==
    /\ poll.pc = "configured"
    /\ \E tool \in Tools :
           poll' = [poll EXCEPT !.loops =
                       [t \in DOMAIN poll.loops \cup {tool} |->
                           IF t = tool
                           THEN [max_wait_time |-> MaxWaitTime(poll.meshy_timeout, tool),
                                 check_interval |-> check_interval(tool),
                                 elapsed_time |-> 0]
                           ELSE poll.loops[t]]]
    /\ UNCHANGED <<frame_vars, session_vars, thread_vars>>

ConfigNext == LoopSetup

SpecConfig == ConfigInit /\ [][ConfigNext]_vars

\* C33: for every positive configured base timeout the refinement loop's
\* ceiling is strictly greater than the ceiling of either generation loop, and
\* the poll interval is shortest for the text generation and longest for the
\* refinement.
C33_RefineCeilingAndIntervals ==
    \A a \in DOMAIN poll.loops, b \in DOMAIN poll.loops :
        /\ (a = "refine_generated_mesh" /\ b # a)
              => /\ poll.loops[a].max_wait_time > poll.loops[b].max_wait_time
                 /\ poll.loops[a].check_interval > poll.loops[b].check_interval
        /\ (a = "generate_mesh_from_text" /\ b # a)
              => poll.loops[a].check_interval < poll.loops[b].check_interval

\* Every loop was set up under a base timeout of 7 seconds.
C33_Witness ==
    /\ poll.meshy_timeout = 7
    /\ DOMAIN poll.loops = Tools
    /\ poll.loops["refine_generated_mesh"].max_wait_time = 14
    /\ poll.loops["generate_mesh_from_text"].max_wait_time = 7

\* ------------------------------------------------------ session properties
\* The JSON object a reply carries: whether the receive returned bytes that
\* are a JSON document whose value is an object, and that object.
IsObjectReply(reply) ==
    /\ reply.st = "returned"
    /\ reply.ret.t = "bytes"
    /\ decode(reply.ret.v).ok
    /\ json_loads(decode(reply.ret.v).text).ok
    /\ json_loads(decode(reply.ret.v).text).val.t = "object"
ObjectOf(reply) == json_loads(decode(reply.ret.v).text).val.v

\* A reply whose status is the string s.
HasStatus(reply, s) ==
    /\ IsObjectReply(reply)
    /\ W_status \in DOMAIN ObjectOf(reply)
    /\ ObjectOf(reply)[W_status] = JString(s)

\* A field of a reply that holds a non-empty string.
HasText(reply, key) ==
    /\ key \in DOMAIN ObjectOf(reply)
    /\ ObjectOf(reply)[key].t = "string"
    /\ ObjectOf(reply)[key].v # <<>>

\* Whether the text t occurs in the text msg.
Contains(msg, t) ==
    \E i \in 0..(Len(msg) - Len(t)) : SubSeq(msg, i + 1, i + Len(t)) = t

\* C1: acquire returns a connection only when the last ping of that call was
\* sent on the socket the returned connection now holds and was answered with
\* status "success"; and a call whose last ping was sent (the peer accepted the
\* connect) but not so answered raises a connection error.
C1_AcquireFreshlyProbed ==
    last.op = "acquire" =>
        /\ ~last.raised =>
              /\ last.conn # None
              /\ godot = last.conn
              /\ _godot_connection = last.conn
              /\ sock[last.conn] # None
              /\ sockets[sock[last.conn]] = "open"
              /\ last.pings >= 1
              /\ last.sent_on = sock[last.conn]
              /\ HasStatus(last.reply, W_success)
        /\ (last.sent_on # None /\ ~HasStatus(last.reply, W_success)) =>
              /\ last.raised
              /\ last.exc.type = "ConnectionError"
              /\ godot = None

\* acquire returned a new connection after the probe of the cached one failed.
C1_Witness ==
    /\ last.op = "acquire"
    /\ ~last.raised
    /\ last.pings = 2
    /\ last.sent_on = sock[last.conn]
    /\ HasStatus(last.reply, W_success)

\* C8: a generic command answered with status "success" and no result field
\* returns {} and keeps the socket handle.
C8_SuccessWithoutResult ==
    (/\ last.op = "send" /\ last.cmd # "ping"
     /\ HasStatus(last.reply, W_success)
     /\ W_result \notin DOMAIN ObjectOf(last.reply))
        => /\ ~last.raised
           /\ last.ret = EmptyDict
           /\ sock[last.conn] # None
           /\ sock[last.conn] = last.sent_on

C8_Witness ==
    /\ last.op = "send" /\ last.cmd # "ping"
    /\ HasStatus(last.reply, W_success)
    /\ W_result \notin DOMAIN ObjectOf(last.reply)
    /\ last.ret = EmptyDict

\* C9: a generic command answered with status "error" raises, and the message
\* holds the error field when that is a non-empty string, else the message
\* field when the reply has one, else "Unknown Godot error".
C9_ErrorReplyMessage ==
    (last.op = "send" /\ last.cmd # "ping" /\ HasStatus(last.reply, W_error))
        => /\ last.raised
           /\ last.ret = PyNone
           /\ IF HasText(last.reply, W_error)
              THEN Contains(last.exc.msg, ObjectOf(last.reply)[W_error].v)
              ELSE IF W_message \in DOMAIN ObjectOf(last.reply)
              THEN /\ ObjectOf(last.reply)[W_message].t = "string"
                   /\ Contains(last.exc.msg, ObjectOf(last.reply)[W_message].v)
                   /\ ~Contains(last.exc.msg, <<"Unknown Godot error">>)
              ELSE Contains(last.exc.msg, <<"Unknown Godot error">>)

\* The error field is empty and the message field is used.
C9_Witness ==
    /\ last.op = "send" /\ last.cmd # "ping"
    /\ HasStatus(last.reply, W_error)
    /\ W_error \in DOMAIN ObjectOf(last.reply)
    /\ ~HasText(last.reply, W_error)
    /\ HasText(last.reply, W_message)
    /\ last.raised
    /\ Contains(last.exc.msg, ObjectOf(last.reply)[W_message].v)

\* C10: after send_command raises, whatever the path, the connection's socket
\* handle is None.
C10_RaiseClearsHandle ==
    (last.op = "send" /\ last.raised) => sock[last.conn] = None

\* send_command raised on an error reply received on a connected socket.
C10_Witness ==
    /\ last.op = "send"
    /\ last.raised
    /\ last.sent_on # None
    /\ HasStatus(last.reply, W_error)
    /\ sock[last.conn] = None

\* C11: send_command("ping") returns {"message": "pong"}, keeping the handle,
\* exactly when the command was sent and the framed response is non-empty,
\* parses as JSON and is an object whose status is "success"; in every other
\* case it raises a ConnectionError and the handle is None; the value returned
\* is never anything but the fixed acknowledgement.
C11_PingAcknowledgement ==
    (last.op = "send" /\ last.cmd = "ping") =>
        IF HasStatus(last.reply, W_success)
        THEN /\ ~last.raised
             /\ last.ret = Pong
             /\ sock[last.conn] = last.sent_on
             /\ sock[last.conn] # None
        ELSE /\ last.raised
             /\ last.exc.type = "ConnectionError"
             /\ last.ret = PyNone
             /\ sock[last.conn] = None

\* A ping answered with a success reply whose result is not the pong payload.
C11_Witness ==
    /\ last.op = "send" /\ last.cmd = "ping"
    /\ HasStatus(last.reply, W_success)
    /\ W_result \in DOMAIN ObjectOf(last.reply)
    /\ ObjectOf(last.reply)[W_result] # Pong
    /\ last.ret = Pong

\* C12: when send_command raises after it sent on a socket, that socket is
\* closed by the time the handle is cleared; no open socket is left that no
\* connection object references.
C12_InvalidationClosesSocket ==
    (last.op = "send" /\ last.raised /\ last.sent_on # None)
        => /\ sockets[last.sent_on] = "closed"
           /\ \A k \in Unreferenced : sockets[k] # "open"

\* C13: at most one socket to the peer is open at any time.
C13_AtMostOneOpenSocket ==
    Cardinality({ k \in Socks : sockets[k] = "open" }) <= 1

\* C14: when server_lifespan has exited, the socket of the connection that
\* get_godot_connection caches is not open (unless the close itself raised).
C14_ShutdownClosesCached ==
    (lifespan = "stopped" /\ last.cmd # "close raises" /\ _godot_connection # None)
        => \/ sock[_godot_connection] = None
           \/ sockets[sock[_godot_connection]] = "closed"

\* The peer answered the ping: the receive returned a success reply, or bytes
\* that begin the pong reply (only a peer sending the pong reply sends these).
PeerAnsweredPing(reply) ==
    /\ reply.st = "returned"
    /\ reply.ret.t = "bytes"
    /\ \/ HasStatus(reply, W_success)
       \/ startswith(strip(decode(reply.ret.v).text), PongPrefix)

\* C15: an acquire whose probe of the cached connection failed, and whose new
\* connection connected and had its ping answered by the peer, returns that
\* new connection, cached and holding the open socket.
C15_ReconnectInSameCall ==
    (/\ last.op = "acquire" /\ last.pings = 2
     /\ last.sent_on # None
     /\ PeerAnsweredPing(last.reply))
        => /\ ~last.raised
           /\ godot = last.conn
           /\ _godot_connection = last.conn
           /\ sock[last.conn] = last.sent_on
           /\ sockets[last.sent_on] = "open"

\* C16: when get_godot_connection raises, it raises a ConnectionError, returns
\* no connection and leaves the module's cached connection None.
C16_FailedAcquireCachesNothing ==
    (last.op = "acquire" /\ last.raised)
        => /\ last.exc.type = "ConnectionError"
           /\ last.conn = None
           /\ _godot_connection = None

\* The cached connection's probe failed and so did the ping of the new one.
C16_Witness ==
    /\ last.op = "acquire" /\ last.raised
    /\ last.pings = 2
    /\ last.sent_on # None
    /\ _godot_connection = None

\* C17: disconnect never raises and leaves the socket handle None, also when
\* the close raised; and a disconnect of a connection that holds no socket
\* (a second disconnect, for one) changes no handle, no socket and no cached
\* connection.
C17_DisconnectIsSafe ==
    /\ [](last.op = "disconnect" => ~last.raised /\ sock[last.conn] = None)
    /\ [][(Disconnect /\ sock[godot] = None)
             => UNCHANGED <<sock, sockets, _godot_connection, godot>>]_vars

\* A disconnect whose close raised.
C17_Witness ==
    /\ last.op = "disconnect"
    /\ last.cmd = "close raises"
    /\ last.sent_on # None
    /\ ~last.raised
    /\ sock[last.conn] = None

\* C18: one call of get_godot_connection opens at most one new socket and,
\* with the probe of the cached connection, sends at most two pings.
C18_OneReconnectPerAcquire ==
    last.op = "acquire" => last.opened <= 1 /\ last.pings <= 2

\* The ways a receive can end with a reply whose status is "success".
SuccessReplies == { r \in RxOutcomes : HasStatus(r, W_success) }

\* C31: when the probe of the cached connection succeeds, acquire returns
\* that same connection object with its socket handle unchanged, opens no
\* socket and does not replace the cached connection.  (An acquire that finds
\* a cached connection and returns after one ping is one whose probe
\* succeeded: after a failed probe the new connection is pinged as well.)
C31_ProbeSuccessKeepsAll ==
    [][(/\ _godot_connection # None
        /\ last' # last
        /\ last'.op = "acquire"
        /\ ~last'.raised
        /\ last'.pings = 1)
          => /\ godot' = _godot_connection
             /\ _godot_connection' = _godot_connection
             /\ sock'[_godot_connection] = sock[_godot_connection]
             /\ last'.opened = 0
             /\ sockets' = sockets]_vars

\* C32: the liveness probe issued by acquire runs with its own timeout,
\* shorter than the timeout applied to generic commands.
C32_ProbeTimeoutShorter ==
    (last.op = "acquire" /\ last.timeout # None)
        => last.timeout < settimeout("GET_SCENE_INFO")

\* Where the session stands after the error reply: what holds of every
\* handle, of an acquire that returned and of a command sent since.
AfterErrorReply ==
    /\ \A c \in Conns : sock[c] # ErrorSocket
    /\ (last.op = "acquire" /\ ~last.raised) =>
           /\ last.sent_on \notin {None, ErrorSocket}
           /\ last.pings >= 1
           /\ last.reply \in SuccessReplies
           /\ sock[last.conn] = last.sent_on
    /\ (last.op = "send" /\ godot # None) => last.sent_on # ErrorSocket

\* C29: after the peer has answered a generic command with status "error",
\* the next command issued through acquire is sent over a newly opened socket
\* that has passed a fresh ping, and never over the socket the error reply
\* arrived on: no connection holds that socket again, an acquire that returns
\* has pinged another socket and got status "success" on it, and the command
\* that follows the acquire goes over the socket the acquire pinged.
C29_FreshSocketAfterError ==
    /\ []AfterErrorReply
    /\ [][(last.op = "acquire" /\ ~last.raised /\ last'.op = "send") =>
              /\ last'.conn = last.conn
              /\ last'.sent_on = last.sent_on
              /\ last'.opened = 0]_vars

\* The command after the error went over socket 2, which the acquire had
\* opened and pinged, while the socket of the error reply was still open.
C29_Witness ==
    /\ last.op = "send"
    /\ godot # None
    /\ last.cmd = "GET_SCENE_INFO"
    /\ ~last.raised
    /\ last.opened = 0
    /\ last.sent_on = ErrorSocket + 1
    /\ sockets[ErrorSocket] = "open"
    /\ sockets[ErrorSocket + 2] = "unused"

\* ------------------------------------------------------ framing properties
\* What json.loads(data.decode('utf-8')) accepts.
IsJsonDocument(data) == decode(data).ok /\ json_loads(decode(data).text).ok

\* Whether the decoded, stripped buffer starts with the pong prefix.
HasPongPrefix(data) ==
    decode(data).ok /\ startswith(strip(decode(data).text), PongPrefix)

IsProperPrefix(p, m) == Len(p) < Len(m) /\ SubSeq(m, 1, Len(p)) = p

\* The call on the whole message delivered by one recv.
OneChunk(m) == receive_full_response(<<RecvBytes(m), RecvBytes(<<>>)>>).rx

\* C2: for a complete message delivered in any chunks (no close, no timeout),
\* the call ends when the last byte is in at the latest, and it ends as it does
\* when the message comes in one chunk, unless a chunk ended after a proper
\* prefix of the message that is itself a JSON document.
C2_ChunkBoundaryInvariant ==
    (peer_msg \in CompleteMessages /\ last_recv = "chunk")
        => /\ wire = <<>> => rx.st # "reading"
           /\ rx.st # "reading" =>
                \/ /\ rx.st = OneChunk(peer_msg).st
                   /\ rx.ret = OneChunk(peer_msg).ret
                \/ /\ rx.st = "returned"
                   /\ rx.ret = Bytes(rx.data)
                   /\ IsProperPrefix(rx.data, peer_msg)
                   /\ IsJsonDocument(rx.data)

\* C3: whatever the call returns is a byte string that decodes to one JSON
\* document.
C3_ReturnsOneJsonValue ==
    rx.st = "returned" => rx.ret.t = "bytes" /\ IsJsonDocument(rx.ret.v)

\* C4: a close after at least one chunk returns the accumulated bytes.
C4_CloseReturnsAccumulated ==
    (last_recv = "closed" /\ rx.data # <<>>)
        => rx.st = "returned" /\ rx.ret = Bytes(rx.data)

\* C5: a close on the first read (nothing accumulated) raises the
\* premature-close failure and returns nothing.
C5_PrematureCloseRaises ==
    (last_recv = "closed" /\ rx.data = <<>>)
        => /\ rx.st = "raised"
           /\ rx.err = "Connection closed before receiving data"
           /\ rx.ret = NoneVal

C5_Witness ==
    /\ last_recv = "closed"
    /\ rx.data = <<>>
    /\ wire = peer_msg
    /\ rx.st = "raised"

\* C6: a buffer that does not decode as UTF-8, or that decodes to a text which
\* has no pong prefix and is no JSON document, is incomplete: the call goes on
\* reading.
C6_UndecodableKeepsReading ==
    (last_recv = "chunk" /\ ~HasPongPrefix(rx.data) /\ ~IsJsonDocument(rx.data))
        => rx.st = "reading"

\* C7: the call returns a buffer through the fast path exactly when the
\* decoded, stripped buffer starts with the pong prefix, and returns any other
\* buffer only when json.loads accepts it.
C7_FastPathExactly ==
    /\ (rx.st = "returned" /\ rx.ret.t = "bytes")
          => /\ rx.ret.v = rx.data
             /\ rx.path = "fast" <=> HasPongPrefix(rx.data)
             /\ rx.path # "fast" => rx.path = "parsed" /\ IsJsonDocument(rx.data)
    /\ (rx.st = "reading" /\ rx.data # <<>>) => ~HasPongPrefix(rx.data)
    /\ rx.path = "fast" => rx.st = "returned" /\ rx.ret = Bytes(rx.data)

\* The fast path returning a buffer that json.loads rejects.
C7_Witness ==
    /\ rx.st = "returned"
    /\ rx.path = "fast"
    /\ rx.ret = Bytes(rx.data)
    /\ HasPongPrefix(rx.data)
    /\ ~IsJsonDocument(rx.data)
\* C30: every call of receive_full_response eventually returns or fails, the
\* loop being bounded by the configured connection timeout, also against a
\* peer that keeps delivering bytes that never form valid JSON and never
\* closes the stream.
C30_ReceiveEnds == <>(rx.st # "reading")

\* ------------------------------------------------------ command properties
\* C34: with one caller and a peer that sends one JSON document per request,
\* the bytes a call of send_command has read are bytes of the peer's reply to
\* that command: what an earlier call left unread on the socket is never
\* consumed as part of a later command's response.
C34_ReadsOwnReplyOnly ==
    (last.op = "send" /\ last.reply.st # "none")
        => /\ Len(rx.data) <= Len(peer_msg)
           /\ SubSeq(peer_msg, 1, Len(rx.data)) = rx.data

\* What a reply that is a JSON document loads to.
Loaded(reply) == json_loads(decode(reply.ret.v).text).val

\* C36: for a generic command, a parsed response whose status is not exactly
\* "error" (a missing or unrecognized status included) is treated as success:
\* send_command returns its result field, or an empty mapping when result is
\* absent or null, and keeps the socket handle.
C36_NonErrorIsSuccess ==
    (/\ last.op = "send"
     /\ last.cmd # "ping"
     /\ IsObjectReply(last.reply)
     /\ ~HasStatus(last.reply, W_error))
        => /\ ~last.raised
           /\ last.ret = IF /\ W_result \in DOMAIN ObjectOf(last.reply)
                            /\ ObjectOf(last.reply)[W_result] # JNull
                         THEN ObjectOf(last.reply)[W_result]
                         ELSE EmptyDict
           /\ sock[godot] # None
           /\ sock[godot] = last.sent_on

\* The JSON values the claim names: {}, [], 0 and null.
EmptyValues == {JObject(<<>>), JArray(<<>>), JNumber(<<"0">>), JNull}

\* C37: for a generic command, a framed response that parses to an empty or
\* falsy JSON value ({}, [], 0 or null) is reported as an invalid-JSON
\* communication failure and clears the socket handle, although the framing
\* layer accepted it as a complete valid document.
C37_EmptyValueIsInvalidJson ==
    (/\ last.op = "send"
     /\ last.cmd # "ping"
     /\ last.reply.st = "returned"
     /\ last.reply.ret.t = "bytes"
     /\ IsJsonDocument(last.reply.ret.v)
     /\ Loaded(last.reply) \in EmptyValues)
        => /\ rx.st = "returned"
           /\ rx.path = "parsed"
           /\ last.raised
           /\ last.exc = Exc("Exception", <<"Failed to communicate with Godot: ",
                                            "Invalid JSON response from Godot">>)
           /\ sock[godot] = None

\* The peer answered a generic command with {}.
C37_Witness ==
    /\ last.op = "send"
    /\ last.cmd # "ping"
    /\ last.reply.st = "returned"
    /\ last.reply.ret.t = "bytes"
    /\ last.reply.ret.v = M_emptyObject
    /\ last.raised
    /\ sock[godot] = None

\* C38: connect is idempotent while connected: with a socket handle present
\* it returns True, opens no socket and leaves the handle; when the opening
\* fails it returns False and leaves the handle None.
C38_ConnectIdempotent ==
    [][(last' # last /\ last'.op = "connect")
          => /\ sock[godot] # None
                   => /\ last'.ret = JTrue
                      /\ last'.opened = 0
                      /\ sock' = sock
                      /\ sockets' = sockets
                      /\ wire' = wire
             /\ last'.cmd = "refused"
                   => /\ last'.ret = JFalse
                      /\ sock'[godot] = None
                      /\ sockets' = sockets]_vars

\* connect was called on a connection that held a socket, and returned True.
C38_Witness ==
    /\ last.op = "connect"
    /\ last.cmd = "connected"
    /\ last.sent_on # None
    /\ last.ret = JTrue
    /\ sock[godot] = last.sent_on

====
